---- MODULE Spec2Model ----
(***************************************************************************)
(* Model of the table serialization Writer of package ts                   *)
(* (src/ts/writer.go lines 1-431, constants in src/unnamed/part_005).      *)
(*                                                                         *)
(* The Writer is single threaded: every public method is one atomic        *)
(* action.  The byte sink (io.Writer) is an external collaborator whose    *)
(* Write may succeed, or fail after accepting a prefix of the bytes; the   *)
(* outcome of every Write call is an input of the action that issues it.   *)
(*                                                                         *)
(* The module also holds the field codecs of src/ts/doc.go, each Encode a  *)
(* pure operator (SpecCodec), the construction of the Writer call by call  *)
(* (SpecBoot), and start.Start of src/unnamed/part_000 with its three      *)
(* goroutines, one action per step (SpecStart, SpecStartLive).             *)
(***************************************************************************)
EXTENDS Integers, Sequences, FiniteSets

VARIABLES
    err,            \* Writer.err: the latched terminal error
    sink,           \* the bytes the io.Writer has accepted so far
    chunksWritten,  \* Writer.chunksWritten
    table,          \* Writer.table: table id -> tableInfo
    rowID,          \* Writer.rowID: table id -> last row id handed out
    control,        \* Writer.control: control table id -> TableRef
    rowBuffer,      \* Writer.rowBuffer: table id -> buffered rows (byte strings)
    wlog,           \* the Write calls the sink has received, in order
    rowTable,       \* table id -> for every buffered row, the table it was inserted for
    refs,           \* the TableRefs Define has returned to the caller
    calls,          \* the number of calls made on the Writer while it was healthy
    call,           \* the last call: its arguments and what it returned
    start           \* the call of start.Start in progress: its goroutines and channels

vars == <<err, sink, chunksWritten, table, rowID, control, rowBuffer, wlog, rowTable, refs, calls, call, start>>

(***************************************************************************)
(* Bounds of the model.                                                    *)
(***************************************************************************)
MaxDefines == 1          \* Define calls on a healthy Writer
MaxRows == 2             \* rows a table holds in the row buffer when Insert adds one more
MaxChunks == 10          \* chunks written to the sink and tables waiting in the row buffer
MaxPartial == 0          \* bytes a failing Write may accept before it fails
MaxCalls == 3            \* calls on the healthy Writer after its construction
MaxRunes == 2            \* runes and stray bytes in one text passed to a codec
MaxSignals == 2          \* interrupt signals the process receives
MaxUse == 2              \* column names in one call of Use

(***************************************************************************)
(* Constants of the format.                                                *)
(***************************************************************************)
asciiFS == 28
asciiRS == 30

fileHeader == <<1, 83, 67, 68, 48, 49, 0, 2>>   \* SOH "SCD01" NUL STX
fileCancel == <<28, 24>>                         \* FS CAN
fileEOF == <<28, 4>>                             \* FS EOT
markerChunk == <<asciiFS, 67>>                   \* FS "C"
markerRow == <<asciiRS, 82>>                     \* RS "R"

controlVersionID == 1
controlTagID == 2
controlTableID == 3
controlTableTagID == 4
controlFieldTypeID == 5
controlColumnID == 6
controlColumnTagID == 7

Hash == 1
Int64 == 2
Bool == 3
String == 4
Bytes == 5
Any == 6

TagHidden == 1

hashSizeBits == 256

(***************************************************************************)
(* Errors.  An error value carries its kind and the data its message is    *)
(* formatted from.                                                         *)
(***************************************************************************)
MkErr(kind, names, a, b) == [kind |-> kind, names |-> names, a |-> a, b |-> b]

Nil == MkErr("nil", <<>>, 0, 0)
ioEOF == MkErr("EOF", <<>>, 0, 0)
ErrSink == MkErr("write", <<>>, 0, 0)
ErrInvalidNames(names) == MkErr("invalid table names", names, 0, 0)
ErrValueCount(want, got) == MkErr("value count", <<>>, want, got)
ErrRowLength(len, tid) == MkErr("invalid row length", <<>>, len, tid)

(***************************************************************************)
(* Values passed to Insert: the dynamic Go type and the content.           *)
(***************************************************************************)
MkVal(k, n, s, b) == [k |-> k, n |-> n, s |-> s, b |-> b]
VInt64(n) == MkVal("int64", n, "", <<>>)
VInt(n) == MkVal("int", n, "", <<>>)
VType(n) == MkVal("Type", n, "", <<>>)
VTag(n) == MkVal("Tag", n, "", <<>>)
VBool(b) == MkVal("bool", IF b THEN 1 ELSE 0, "", <<>>)
VString(s) == MkVal("string", 0, s, <<>>)
VIface(d) == MkVal(d, 0, "", <<>>)     \* Col.Default: "nil" or "Zero"
VText(b) == MkVal("string", 0, "", b)  \* a string given by its bytes
VBytes(b) == MkVal("[]byte", 0, "", b)
VArr8(b) == MkVal("[8]byte", 0, "", b)

(***************************************************************************)
(* Definitions: Table, Col, TableRef, RowRef.                              *)
(***************************************************************************)
Table(name, comment, tags) == [Name |-> name, Comment |-> comment, Tags |-> tags]

Col(name, type) ==
    [Name |-> name, Type |-> type, Link |-> 0, Key |-> FALSE, Nullable |-> FALSE,
     Length |-> 0, SortOrder |-> 0, Default |-> "nil", Comment |-> "", Tags |-> <<>>]

TableRef(id, all, col, invalid) == [id |-> id, all |-> all, col |-> col, invalid |-> invalid]
RowRef(tbl, id) == [table |-> tbl, id |-> id]

errTable == TableRef(-1, {}, <<>>, <<>>)
errRow == RowRef(0, -1)
noRef == TableRef(0, {}, <<>>, <<>>)
noRow == RowRef(0, 0)

(***************************************************************************)
(* Helpers on maps, sequences and bytes.                                   *)
(***************************************************************************)
Min(a, b) == IF a < b THEN a ELSE b

Put(f, k, v) == [x \in (DOMAIN f) \cup {k} |-> IF x = k THEN v ELSE f[x]]
Delete(f, k) == [x \in (DOMAIN f) \ {k} |-> f[x]]
Get(f, k, dflt) == IF k \in DOMAIN f THEN f[k] ELSE dflt

RECURSIVE SortAsc(_)
SortAsc(S) ==
    IF S = {} THEN <<>>
    ELSE LET m == CHOOSE x \in S : \A y \in S : x <= y
         IN <<m>> \o SortAsc(S \ {m})

RECURSIVE Concat(_)
Concat(ss) == IF ss = <<>> THEN <<>> ELSE Head(ss) \o Concat(Tail(ss))

RECURSIVE LittleEndian(_, _)
LittleEndian(n, k) ==
    IF k = 0 THEN <<>> ELSE <<n % 256>> \o LittleEndian(n \div 256, k - 1)

IsPrefix(p, s) == Len(p) <= Len(s) /\ SubSeq(s, 1, Len(p)) = p

(***************************************************************************)
(* The sink.  The outcome of one Write call is OK (every byte accepted,   *)
(* nil error) or a number k >= 0: the sink accepts the first k bytes (all  *)
(* of them when the data is shorter) and returns an error.                 *)
(***************************************************************************)
OK == -1
Outcomes == {OK} \cup (0 .. MaxPartial)

Accepted(data, out) == IF out = OK THEN data ELSE SubSeq(data, 1, Min(out, Len(data)))

\* w.w.Write(data) / cb.WriteTo(w.w): the sink takes what it accepts and
\* records the call: what was written, at which offset of the stream, how
\* many bytes were passed and accepted, whether Write returned an error, and
\* for a chunk the table each of its rows was inserted for.
SinkWrite(w, kind, tid, rows, data, out) ==
    [w EXCEPT !.sink = @ \o Accepted(data, out),
              !.wlog = Append(@, [kind |-> kind, tid |-> tid, off |-> Len(w.sink),
                                  len |-> Len(data), n |-> Len(Accepted(data, out)),
                                  failed |-> out # OK, rows |-> rows])]

(***************************************************************************)
(* The Writer as a record, and its methods as operators on that record.    *)
(* The field panic records that a statement has panicked: no statement     *)
(* after it runs, so every loop stops on a panicked Writer.                *)
(***************************************************************************)
MkWriter ==
    [err |-> Nil, sink |-> <<>>, chunksWritten |-> 0, table |-> <<>>, rowID |-> <<>>,
     control |-> <<>>, rowBuffer |-> <<>>, wlog |-> <<>>, rowTable |-> <<>>,
     panic |-> FALSE]

\* The table ids from the largest down.
tableIDListDesc(w) ==
    LET tt == SortAsc(DOMAIN w.table)
    IN [i \in 1 .. Len(tt) |-> tt[Len(tt) + 1 - i]]

tableIDList(w) == SortAsc(DOMAIN w.table)

rowBufferTID(w) == SortAsc(DOMAIN w.rowBuffer)

nextRowID(w, tid) ==
    LET rid == Get(w.rowID, tid, 0) + 1
    IN [w |-> [w EXCEPT !.rowID = Put(@, tid, rid)], rid |-> rid]

Error(w) == w.err

\* TableRef.Use
RECURSIVE UseInvalid(_, _)
UseInvalid(all, columns) ==
    IF columns = <<>> THEN <<>>
    ELSE (IF Head(columns) \in all THEN <<>> ELSE <<Head(columns)>>)
         \o UseInvalid(all, Tail(columns))

\* Use that keeps the invalid names of the ref it narrows.
UseKeepsInvalid(t, columns) ==
    TableRef(t.id, t.all, columns, t.invalid \o UseInvalid(t.all, columns))

Use(t, columns) == TableRef(t.id, t.all, columns, UseInvalid(t.all, columns))

\* The name of the table registered under tid when a row is inserted for it.
TableName(w, tid) == IF tid \in DOMAIN w.table THEN w.table[tid].Name ELSE ""

\* Insert that counts the values only when there are too many of them.
InsertFewerAccepted(w, t, values) ==
    IF w.err # Nil THEN [w |-> w, ref |-> errRow]
    ELSE IF Len(t.invalid) > 0
        THEN [w |-> [w EXCEPT !.err = ErrInvalidNames(t.invalid)], ref |-> errRow]
    ELSE IF Len(t.col) < Len(values)
        THEN [w |-> [w EXCEPT !.err = ErrValueCount(Len(t.col), Len(values))], ref |-> errRow]
    ELSE [w |-> [w EXCEPT !.rowBuffer = Put(@, t.id, Append(Get(@, t.id, <<>>), markerRow)),
                          !.rowTable = Put(@, t.id, Append(Get(@, t.id, <<>>), TableName(w, t.id)))],
          ref |-> RowRef(t.id, -1)]

\* Insert that counts the values before it looks at the invalid names.
InsertCountFirst(w, t, values) ==
    IF w.err # Nil THEN [w |-> w, ref |-> errRow]
    ELSE IF Len(t.col) # Len(values)
        THEN [w |-> [w EXCEPT !.err = ErrValueCount(Len(t.col), Len(values))], ref |-> errRow]
    ELSE IF Len(t.invalid) > 0
        THEN [w |-> [w EXCEPT !.err = ErrInvalidNames(t.invalid)], ref |-> errRow]
    ELSE [w |-> [w EXCEPT !.rowBuffer = Put(@, t.id, Append(Get(@, t.id, <<>>), markerRow)),
                          !.rowTable = Put(@, t.id, Append(Get(@, t.id, <<>>), TableName(w, t.id)))],
          ref |-> RowRef(t.id, -1)]

\* Insert that starts the table's buffer anew with every row.
InsertReplacesRows(w, t, values) ==
    IF w.err # Nil THEN [w |-> w, ref |-> errRow]
    ELSE IF Len(t.invalid) > 0
        THEN [w |-> [w EXCEPT !.err = ErrInvalidNames(t.invalid)], ref |-> errRow]
    ELSE IF Len(t.col) # Len(values)
        THEN [w |-> [w EXCEPT !.err = ErrValueCount(Len(t.col), Len(values))], ref |-> errRow]
    ELSE [w |-> [w EXCEPT !.rowBuffer = Put(@, t.id, <<markerRow>>),
                          !.rowTable = Put(@, t.id, <<TableName(w, t.id)>>)],
          ref |-> RowRef(t.id, -1)]

\* Insert that buffers the first byte of the row marker only.
InsertShortRow(w, t, values) ==
    IF w.err # Nil THEN [w |-> w, ref |-> errRow]
    ELSE IF Len(t.invalid) > 0
        THEN [w |-> [w EXCEPT !.err = ErrInvalidNames(t.invalid)], ref |-> errRow]
    ELSE IF Len(t.col) # Len(values)
        THEN [w |-> [w EXCEPT !.err = ErrValueCount(Len(t.col), Len(values))], ref |-> errRow]
    ELSE [w |-> [w EXCEPT !.rowBuffer = Put(@, t.id, Append(Get(@, t.id, <<>>), <<asciiRS>>)),
                          !.rowTable = Put(@, t.id, Append(Get(@, t.id, <<>>), TableName(w, t.id)))],
          ref |-> RowRef(t.id, -1)]

\* Writer.Insert: the row is the row marker alone, the values are not encoded.
Insert(w, t, values) ==
    IF w.err # Nil THEN [w |-> w, ref |-> errRow]
    ELSE IF Len(t.invalid) > 0
        THEN [w |-> [w EXCEPT !.err = ErrInvalidNames(t.invalid)], ref |-> errRow]
    ELSE IF Len(t.col) # Len(values)
        THEN [w |-> [w EXCEPT !.err = ErrValueCount(Len(t.col), Len(values))], ref |-> errRow]
    ELSE LET rowdata == markerRow
         IN [w |-> [w EXCEPT !.rowBuffer = Put(@, t.id, Append(Get(@, t.id, <<>>), rowdata)),
                             !.rowTable = Put(@, t.id, Append(Get(@, t.id, <<>>), TableName(w, t.id)))],
             ref |-> RowRef(t.id, -1)]

\* Writer.cdefine
cdefine(w, tid, t, cols) ==
    IF w.err # Nil THEN [w |-> w, ref |-> errTable]
    ELSE LET ti == [ID |-> tid, Name |-> t.Name, Comment |-> t.Comment, Tags |-> t.Tags,
                    Columns |-> cols]
             names == [i \in 1 .. Len(cols) |-> cols[i].Name]
             lookup == {cols[i].Name : i \in 1 .. Len(cols)}
         IN [w |-> [w EXCEPT !.table = Put(@, tid, ti)],
             ref |-> TableRef(tid, lookup, names, <<>>)]

\* csetup that registers whatever cdefine returns.
csetupUnchecked(w, tid, t, cols) ==
    LET r == cdefine(w, tid, t, cols)
    IN [r.w EXCEPT !.control = Put(@, tid, r.ref)]

\* Writer.csetup: a latched error or an id mismatch panics.
csetup(w, tid, t, cols) ==
    IF w.err # Nil THEN [w EXCEPT !.panic = TRUE]
    ELSE LET r == cdefine(w, tid, t, cols)
         IN IF r.ref.id # tid THEN [r.w EXCEPT !.panic = TRUE]
            ELSE [r.w EXCEPT !.control = Put(@, tid, r.ref)]

\* The loop over the tags of one column that stops after the first tag.
insertFirstColumnTag(w, rid, tags) ==
    IF w.panic \/ tags = <<>> THEN w
    ELSE LET r == nextRowID(w, controlColumnTagID)
         IN Insert(r.w, w.control[controlColumnTagID],
                   <<VInt64(r.rid), VInt64(rid), VTag(Head(tags))>>).w

\* Writer.insertControl, the loop over the tags of one column.
RECURSIVE insertColumnTags(_, _, _)
insertColumnTags(w, rid, tags) ==
    IF w.panic \/ tags = <<>> THEN w
    ELSE LET r == nextRowID(w, controlColumnTagID)
             w1 == Insert(r.w, w.control[controlColumnTagID],
                          <<VInt64(r.rid), VInt64(rid), VTag(Head(tags))>>).w
         IN insertColumnTags(w1, rid, Tail(tags))

\* Writer.insertControl, the loop over the columns, from column i on.
RECURSIVE insertColumns(_, _, _)
insertColumns(w, ti, i) ==
    IF w.panic \/ i > Len(ti.Columns) THEN w
    ELSE LET c == ti.Columns[i]
             r == nextRowID(w, controlColumnID)
             fixed_bit_size == 0
             sort_order == i
             w1 == Insert(r.w, w.control[controlColumnID],
                          <<VInt64(r.rid), VInt(0), VInt64(ti.ID), VType(c.Type),
                            VInt64(c.Link), VBool(c.Key), VBool(c.Nullable),
                            VInt64(c.Length), VInt64(fixed_bit_size), VInt64(sort_order),
                            VString(c.Name), VIface(c.Default), VString(c.Comment)>>).w
             w2 == insertColumnTags(w1, r.rid, c.Tags)
         IN insertColumns(w2, ti, i + 1)

\* Writer.insertControl, the loop over the table's tags.
RECURSIVE insertTableTags(_, _, _)
insertTableTags(w, ti, tags) ==
    IF w.panic \/ tags = <<>> THEN w
    ELSE LET r == nextRowID(w, controlTableTagID)
             w1 == Insert(r.w, w.control[controlTableTagID],
                          <<VInt64(r.rid), VInt64(ti.ID), VTag(Head(tags))>>).w
         IN insertTableTags(w1, ti, Tail(tags))

insertControl(w, ti) ==
    LET w1 == Insert(w, w.control[controlTableID],
                     <<VInt64(ti.ID), VInt(0), VString(ti.Name), VString(ti.Comment)>>).w
        w2 == insertTableTags(w1, ti, ti.Tags)
    IN insertColumns(w2, ti, 1)

\* Writer.Define
Define(w, t, cols) ==
    IF w.err # Nil THEN [w |-> w, ref |-> errTable]
    ELSE LET n == nextRowID(w, controlTableID)
             d == cdefine(n.w, n.rid, t, cols)
         IN [w |-> insertControl(d.w, d.w.table[n.rid]), ref |-> d.ref]

(***************************************************************************)
(* Flush.                                                                  *)
(***************************************************************************)
RECURSIVE SumLen(_)
SumLen(rows) == IF rows = <<>> THEN 0 ELSE Len(Head(rows)) + SumLen(Tail(rows))

\* binary.Write(cb, binary.LittleEndian, x) for x of Go type int64.
binaryWriteInt64(x) == LittleEndian(x, 8)

\* binary.Write(cb, binary.LittleEndian, x) for x of Go type int: int is not
\* a fixed-size type, binary.Write returns an error (dropped by the caller)
\* and writes nothing.
binaryWriteInt(x) == <<>>

\* The bytes Flush assembles in the chunk buffer for one table.
chunkBytes(tid, rows) ==
    LET sizeOfRowOffset == 8
        sizeOfRowType == 1
        sizeOfTableID == 8
        sizeOfRowCount == 8
        sizeOfPerRowHeader == sizeOfRowType + sizeOfRowOffset
        headerSize == sizeOfTableID + sizeOfRowCount + (Len(rows) * sizeOfPerRowHeader)
        chunkSize == headerSize + SumLen(rows)
    IN markerChunk \o binaryWriteInt64(chunkSize) \o binaryWriteInt64(tid)
       \o binaryWriteInt(Len(rows)) \o Concat(rows)

\* The loop of Flush that asks for a value byte after the row marker.
flushChunksValueByte(w, tids, i, out) ==
    IF w.panic \/ i > Len(tids) THEN w
    ELSE [w EXCEPT !.rowBuffer = Delete(@, tids[i]), !.rowTable = Delete(@, tids[i]),
                   !.err = ErrRowLength(Len(w.rowBuffer[tids[i]][1]), tids[i])]

\* The loop of Flush that deletes a table's rows only after their chunk was
\* written.
RECURSIVE flushChunksKeepsRows(_, _, _, _)
flushChunksKeepsRows(w, tids, i, out) ==
    IF w.panic \/ i > Len(tids) THEN w
    ELSE LET tid == tids[i]
             w2 == SinkWrite(w, "chunk", tid, w.rowTable[tid],
                             chunkBytes(tid, w.rowBuffer[tid]), out[i])
         IN IF out[i] # OK THEN [w2 EXCEPT !.err = ErrSink]
            ELSE flushChunksKeepsRows(
                     [w2 EXCEPT !.chunksWritten = @ + 1, !.rowBuffer = Delete(@, tid),
                                !.rowTable = Delete(@, tid)], tids, i + 1, out)

\* The loop of Flush over the buffered tables, from position i of tids on;
\* out[i] is the outcome of the Write of chunk i.
RECURSIVE flushChunks(_, _, _, _)
flushChunks(w, tids, i, out) ==
    IF w.panic \/ i > Len(tids) THEN w
    ELSE LET tid == tids[i]
             rows == w.rowBuffer[tid]
             w1 == [w EXCEPT !.rowBuffer = Delete(@, tid), !.rowTable = Delete(@, tid)]
             short == {ri \in 1 .. Len(rows) : Len(rows[ri]) < 2}
         IN IF short # {}
            THEN LET ri == CHOOSE x \in short : \A y \in short : x <= y
                 IN [w1 EXCEPT !.err = ErrRowLength(Len(rows[ri]), tid)]
            ELSE LET w2 == SinkWrite(w1, "chunk", tid, w.rowTable[tid], chunkBytes(tid, rows), out[i])
                 IN IF out[i] # OK THEN [w2 EXCEPT !.err = ErrSink]
                    ELSE flushChunks([w2 EXCEPT !.chunksWritten = @ + 1], tids, i + 1, out)

\* Flush without the test of the latched error.
FlushWhenLatched(w, hdr, out) ==
    IF DOMAIN w.rowBuffer = {} THEN w
    ELSE LET w1 == IF w.chunksWritten = 0
                   THEN SinkWrite(w, "header", 0, <<>>, fileHeader, hdr)
                   ELSE w
         IN flushChunks(w1, rowBufferTID(w1), 1, out)

\* Flush that writes the file header when no row is buffered.
FlushEmptyWritesHeader(w, hdr, out) ==
    IF w.err # Nil THEN w
    ELSE IF DOMAIN w.rowBuffer = {} THEN SinkWrite(w, "header", 0, <<>>, fileHeader, hdr)
    ELSE LET w1 == IF w.chunksWritten = 0
                   THEN SinkWrite(w, "header", 0, <<>>, fileHeader, hdr)
                   ELSE w
         IN flushChunks(w1, rowBufferTID(w1), 1, out)

\* Writer.Flush; hdr is the outcome of the Write of the file header, whose
\* result the code drops.
Flush(w, hdr, out) ==
    IF w.err # Nil THEN w
    ELSE IF DOMAIN w.rowBuffer = {} THEN w
    ELSE LET w1 == IF w.chunksWritten = 0
                   THEN SinkWrite(w, "header", 0, <<>>, fileHeader, hdr)
                   ELSE w
         IN flushChunks(w1, rowBufferTID(w1), 1, out)

(***************************************************************************)
(* Cancel and Close; out is the outcome of the Write of the trailer.       *)
(***************************************************************************)
\* Cancel without the test of the latched error.
CancelWhenLatched(w, out) ==
    LET w1 == SinkWrite(w, "cancel", 0, <<>>, fileCancel, out)
    IN [w |-> [w1 EXCEPT !.err = ioEOF], ret |-> w.err]

Cancel(w, out) ==
    IF w.err # Nil THEN [w |-> w, ret |-> w.err]
    ELSE LET w1 == SinkWrite(w, "cancel", 0, <<>>, fileCancel, out)
             w2 == IF out # OK THEN [w1 EXCEPT !.err = ErrSink] ELSE w1
         IN [w |-> [w2 EXCEPT !.err = ioEOF], ret |-> Nil]

\* Close that latches end-of-stream over an error already latched.
CloseRelatches(w, out) ==
    IF w.err # Nil THEN [w |-> [w EXCEPT !.err = ioEOF], ret |-> w.err]
    ELSE LET w1 == SinkWrite(w, "eof", 0, <<>>, fileEOF, out)
         IN [w |-> [w1 EXCEPT !.err = ioEOF], ret |-> Nil]

\* Close that writes the cancel trailer.
CloseWritesCancel(w, out) ==
    IF w.err # Nil THEN [w |-> w, ret |-> w.err]
    ELSE LET w1 == SinkWrite(w, "eof", 0, <<>>, fileCancel, out)
         IN [w |-> [w1 EXCEPT !.err = ioEOF], ret |-> Nil]

\* Close that writes the trailer whatever error is latched, and returns it.
CloseWritesWhenLatched(w, out) ==
    LET w1 == SinkWrite(w, "eof", 0, <<>>, fileEOF, out)
    IN [w |-> [w1 EXCEPT !.err = IF w.err # Nil THEN w.err ELSE ioEOF], ret |-> w.err]

\* Close that flushes the buffered rows before it writes the trailer.
CloseFlushes(w, out) ==
    IF w.err # Nil THEN [w |-> w, ret |-> w.err]
    ELSE LET w0 == IF DOMAIN w.rowBuffer = {} THEN w
                   ELSE flushChunks(w, rowBufferTID(w), 1, [i \in 1 .. MaxChunks |-> OK])
             w1 == SinkWrite(w0, "eof", 0, <<>>, fileEOF, out)
         IN [w |-> [w1 EXCEPT !.err = ioEOF], ret |-> Nil]

Close(w, out) ==
    IF w.err # Nil THEN [w |-> w, ret |-> w.err]
    ELSE LET w1 == SinkWrite(w, "eof", 0, <<>>, fileEOF, out)
             w2 == IF out # OK THEN [w1 EXCEPT !.err = ErrSink] ELSE w1
         IN [w |-> [w2 EXCEPT !.err = ioEOF], ret |-> Nil]

(***************************************************************************)
(* Construction: the control catalog.                                      *)
(***************************************************************************)
ControlTables ==
    <<  [tid |-> controlVersionID, t |-> Table("control/version", "", <<>>),
         cols |-> << Col("version", Hash) >>],
        [tid |-> controlTagID, t |-> Table("control/tag", "", <<>>),
         cols |-> << [Col("id", Int64) EXCEPT !.Key = TRUE],
                     Col("name", String) >>],
        [tid |-> controlTableID, t |-> Table("control/table", "", <<>>),
         cols |-> << [Col("id", Int64) EXCEPT !.Key = TRUE],
                     [Col("version", Hash) EXCEPT !.Default = "Zero"],
                     Col("name", String),
                     [Col("comment", String) EXCEPT !.Default = "Zero"] >>],
        [tid |-> controlTableTagID, t |-> Table("control/table/tag", "", <<>>),
         cols |-> << [Col("id", Int64) EXCEPT !.Key = TRUE],
                     Col("table", Int64),
                     Col("tag", Int64) >>],
        [tid |-> controlFieldTypeID, t |-> Table("control/fieldtype", "", <<>>),
         cols |-> << [Col("id", Int64) EXCEPT !.Key = TRUE],
                     Col("bit_size", Int64),
                     Col("name", String) >>],
        [tid |-> controlColumnID, t |-> Table("control/column", "", <<>>),
         cols |-> << [Col("id", Int64) EXCEPT !.Key = TRUE],
                     [Col("version", Hash) EXCEPT !.Default = "Zero", !.Tags = <<TagHidden>>],
                     Col("table", Int64),
                     Col("fieldtype", Int64),
                     [Col("link", Int64) EXCEPT !.Nullable = TRUE],
                     [Col("key", Bool) EXCEPT !.Default = "Zero"],
                     [Col("nullable", Bool) EXCEPT !.Default = "Zero"],
                     [Col("length", Int64) EXCEPT !.Default = "Zero",
                                                  !.Comment = "For strings this is the number of allowed runes. For bytes it is the byte count."],
                     [Col("fixed_bit_size", Int64) EXCEPT !.Default = "Zero", !.Tags = <<TagHidden>>],
                     [Col("sort_order", Int64) EXCEPT !.Default = "Zero"],
                     Col("name", String),
                     [Col("default", Any) EXCEPT !.Nullable = TRUE],
                     [Col("comment", String) EXCEPT !.Default = "Zero"] >>],
        [tid |-> controlColumnTagID, t |-> Table("control/column/tag", "", <<>>),
         cols |-> << [Col("id", Int64) EXCEPT !.Key = TRUE],
                     Col("column", Int64),
                     Col("tag", Int64) >> ] >>

\* initControl, first step: the seven csetup calls.
RECURSIVE setupControl(_, _)
setupControl(w, i) ==
    IF w.panic \/ i > Len(ControlTables) THEN w
    ELSE setupControl(csetup(w, ControlTables[i].tid, ControlTables[i].t, ControlTables[i].cols),
                      i + 1)

\* initControl, second step: insertControl for every registered table, in
\* the order of tableIDList.
RECURSIVE insertControlAll(_, _, _)
insertControlAll(w, tids, i) ==
    IF w.panic \/ i > Len(tids) THEN w
    ELSE insertControlAll(insertControl(w, w.table[tids[i]]), tids, i + 1)

\* Writer.addFieldType
addFieldType(w, ftid, name, bitSize) ==
    Insert(w, w.control[controlFieldTypeID], <<VInt64(ftid), VInt64(bitSize), VString(name)>>).w

\* Writer.initControl; hdr and out are the outcomes of the Writes of its Flush.
initControl(w, hdr, out) ==
    LET w1 == setupControl(w, 1)
    IN IF w1.panic THEN w1
       ELSE LET w2 == insertControlAll(w1, tableIDList(w1), 1)
                w3 == Insert(w2, w2.control[controlTagID], <<VTag(TagHidden), VString("hidden")>>).w
                w4 == addFieldType(w3, Hash, "hash", hashSizeBits)
                w5 == addFieldType(w4, Int64, "int64", 64)
                w6 == Flush(w5, hdr, out)
            IN Insert(w6, w6.control[controlVersionID], <<VInt(0)>>).w

NewWriter(hdr, out) == initControl(MkWriter, hdr, out)

(***************************************************************************)
(* The field codecs.  A byte slice passed as scratch is modelled by its    *)
(* backing array up to its capacity (the nil slice is the empty array)     *)
(* and, where the codec reads it, by its length wlen; a codec returns the  *)
(* bytes of the slice it returns (out), whether that slice is nil, the     *)
(* error, and the backing array of out (arr), which the caller may pass,   *)
(* resliced, as the scratch of a later Encode.                             *)
(***************************************************************************)
hashSizeBytes == hashSizeBits \div 8

RuneError == 65533       \* utf8.RuneError, U+FFFD

ErrUnknownType == MkErr("unknown value type", <<>>, 0, 0)
ErrInvalidUTF8(i) == MkErr("invalid utf8", <<>>, i, 0)
ErrRuneCount(name, count, max) == MkErr("rune count", <<name>>, count, max)

Encoded(out, arr, e) == [out |-> out, isnil |-> FALSE, arr |-> arr, err |-> e]
EncodedNil(e) == [out |-> <<>>, isnil |-> TRUE, arr |-> <<>>, err |-> e]

\* The slice returned is a reslice of the scratch writeTo, whose backing
\* array is now arr: it is nil when the scratch is nil.
Resliced(writeTo, out, arr, e) ==
    [out |-> out, isnil |-> writeTo = <<>>, arr |-> arr, err |-> e]

\* The capacity of the array that []byte(v) allocates for n bytes, n > 0:
\* the size class of the allocator that holds n bytes (8, 16, 24, 32, 48,
\* 64, then steps of 16 up to 128).
roundupsize(n) ==
    IF n <= 32 THEN ((n + 7) \div 8) * 8
    ELSE IF n <= 48 THEN 48
    ELSE IF n <= 64 THEN 64
    ELSE ((n + 15) \div 16) * 16

\* make([]byte, n)
Zeros(n) == [i \in 1 .. n |-> 0]

\* copy(dst[at:], src) on the array dst: the bytes of src that fit replace
\* the bytes of dst from index at (counted from 0) on.
CopyAt(dst, at, src) ==
    [i \in 1 .. Len(dst) |->
        IF i > at /\ i <= at + Len(src) THEN src[i - at] ELSE dst[i]]

\* utf8.DecodeRune(b): the first rune of b and its width in bytes; an
\* invalid or truncated encoding is RuneError of width 1, the empty slice
\* RuneError of width 0.
DecodeRune(b) ==
    LET Cont(x) == x >= 128 /\ x <= 191
        bad == [r |-> RuneError, sz |-> IF b = <<>> THEN 0 ELSE 1]
    IN IF b = <<>> THEN bad
       ELSE IF b[1] < 128 THEN [r |-> b[1], sz |-> 1]
       ELSE IF b[1] >= 194 /\ b[1] <= 223
           THEN IF Len(b) >= 2 /\ Cont(b[2])
                THEN [r |-> (b[1] - 192) * 64 + (b[2] - 128), sz |-> 2]
                ELSE bad
       ELSE IF b[1] >= 224 /\ b[1] <= 239
           THEN IF /\ Len(b) >= 3
                   /\ Cont(b[2])
                   /\ Cont(b[3])
                   /\ (b[1] = 224 => b[2] >= 160)
                   /\ (b[1] = 237 => b[2] <= 159)
                THEN [r |-> (b[1] - 224) * 4096 + (b[2] - 128) * 64 + (b[3] - 128), sz |-> 3]
                ELSE bad
       ELSE IF b[1] >= 240 /\ b[1] <= 244
           THEN IF /\ Len(b) >= 4
                   /\ Cont(b[2])
                   /\ Cont(b[3])
                   /\ Cont(b[4])
                   /\ (b[1] = 240 => b[2] >= 144)
                   /\ (b[1] = 244 => b[2] <= 143)
                THEN [r |-> (b[1] - 240) * 262144 + (b[2] - 128) * 4096
                                + (b[3] - 128) * 64 + (b[4] - 128),
                      sz |-> 4]
                ELSE bad
       ELSE bad

\* utf8.EncodeRune: the UTF-8 bytes of the rune r.
EncodeRune(r) ==
    IF r < 128 THEN <<r>>
    ELSE IF r < 2048 THEN <<192 + (r \div 64), 128 + (r % 64)>>
    ELSE IF r < 65536
        THEN <<224 + (r \div 4096), 128 + ((r \div 64) % 64), 128 + (r % 64)>>
    ELSE <<240 + (r \div 262144), 128 + ((r \div 4096) % 64),
           128 + ((r \div 64) % 64), 128 + (r % 64)>>

\* coderHash.Encode
coderHashEncode(col, writeTo, value) ==
    LET buf == IF Len(writeTo) < hashSizeBytes THEN Zeros(hashSizeBytes) ELSE writeTo
    IN IF value.k \in {"[]byte", "[8]byte"}
       THEN LET arr == CopyAt(buf, 0, SubSeq(value.b, 1, Min(Len(value.b), hashSizeBytes)))
            IN Encoded(SubSeq(arr, 1, hashSizeBytes), arr, Nil)
       ELSE Encoded(SubSeq(buf, 1, hashSizeBytes), buf, ErrUnknownType)

\* The Int64 codec without the case of the native int.
coderInt64NoInt(col, writeTo, value) ==
    LET buf == IF Len(writeTo) < 8 THEN Zeros(8) ELSE writeTo
    IN IF value.k = "int64"
       THEN LET arr == CopyAt(buf, 0, LittleEndian(value.n, 8))
            IN Encoded(SubSeq(arr, 1, 8), arr, Nil)
       ELSE Encoded(SubSeq(buf, 1, 8), buf, ErrUnknownType)

\* coderInt64.Encode
coderInt64Encode(col, writeTo, value) ==
    LET buf == IF Len(writeTo) < 8 THEN Zeros(8) ELSE writeTo
    IN IF value.k \in {"int64", "int"}
       THEN LET arr == CopyAt(buf, 0, LittleEndian(value.n, 8))
            IN Encoded(SubSeq(arr, 1, 8), arr, Nil)
       ELSE Encoded(SubSeq(buf, 1, 8), buf, ErrUnknownType)

\* coderString.Encode, the loop "for i, r := range v" over a string, from
\* byte index i on: the number of runes counted and the array written, or
\* the index of the rune that reads as RuneError.
RECURSIVE rangeRunes(_, _, _, _)
rangeRunes(v, i, runeCount, arr) ==
    IF i >= Len(v) THEN [bad |-> FALSE, at |-> i, runeCount |-> runeCount, arr |-> arr]
    ELSE LET d == DecodeRune(SubSeq(v, i + 1, Len(v)))
         IN IF d.r = RuneError
            THEN [bad |-> TRUE, at |-> i, runeCount |-> runeCount, arr |-> arr]
            ELSE rangeRunes(v, i + d.sz, runeCount + 1, CopyAt(arr, i, EncodeRune(d.r)))

\* coderString.Encode, the loop "for { utf8.DecodeRune(v[i:]) ... }" over a
\* byte slice: it has no exit but the return on RuneError, which the empty
\* rest of the slice reads as.
RECURSIVE decodeRunes(_, _, _, _)
decodeRunes(v, i, runeCount, arr) ==
    LET d == DecodeRune(SubSeq(v, i + 1, Len(v)))
    IN IF d.r = RuneError
       THEN [bad |-> TRUE, at |-> i, runeCount |-> runeCount, arr |-> arr]
       ELSE decodeRunes(v, i + d.sz, runeCount + 1, CopyAt(arr, i, EncodeRune(d.r)))

\* coderString.Encode; wlen is the length of the scratch slice, writeTo the
\* whole of its backing array.  An unknown value type returns the scratch
\* as it was passed.
coderStringEncode(col, writeTo, wlen, value) ==
    IF value.k \notin {"string", "[]byte"}
    THEN Resliced(writeTo, SubSeq(writeTo, 1, wlen), writeTo, ErrUnknownType)
    ELSE LET v == value.b
             buf == IF Len(writeTo) < Len(v) THEN Zeros(Len(v)) ELSE writeTo
             l == IF value.k = "string" THEN rangeRunes(v, 0, 0, buf)
                  ELSE decodeRunes(v, 0, 0, buf)
         IN IF l.bad THEN EncodedNil(ErrInvalidUTF8(l.at))
            ELSE IF col.Length > 0 /\ l.runeCount > col.Length
                THEN EncodedNil(ErrRuneCount(col.Name, l.runeCount, col.Length))
            ELSE IF Len(writeTo) < Len(v)
                THEN Encoded(SubSeq(l.arr, 1, Len(v)), l.arr, Nil)
            ELSE Resliced(writeTo, SubSeq(l.arr, 1, Len(v)), l.arr, Nil)

(***************************************************************************)
(* start.Start: the main goroutine of Start, the goroutine that calls run, *)
(* and the goroutine of the stop-timeout.  The fields main, run and timer  *)
(* are the positions of the three; notify is the number of signals in the  *)
(* channel, fin tells whether the channel fin is closed, once whether the  *)
(* sync.Once has run, runErr what the atomic.Value holds, ret what Start   *)
(* returned.  The other fields record history: sent counts the signals,    *)
(* closes the calls of close(fin), returned is what run returned, expired  *)
(* tells whether the stop-timeout has fired, late whether it had fired     *)
(* when run returned, woke which case of the select was taken, and         *)
(* parent whether the context passed to Start has been cancelled.          *)
(***************************************************************************)
notifyCap == 3

MkStart(main, run, parent) ==
    [main |-> main, run |-> run, timer |-> "none",
     notify |-> 0, sent |-> 0, parent |-> parent, cancel |-> FALSE,
     once |-> FALSE, fin |-> FALSE, closes |-> 0,
     runErr |-> "nil", returned |-> "none", late |-> FALSE,
     expired |-> FALSE, woke |-> "none", ret |-> "none"]

\* No call of Start is in progress.
NotStarted == MkStart("none", "none", FALSE)

\* unlock that skips the sync.Once.
unlockEach(h) == [h EXCEPT !.once = TRUE, !.fin = TRUE, !.closes = @ + 1]

\* unlock that leaves the channel open.
unlockNever(h) == [h EXCEPT !.once = TRUE]

\* unlockOnce: once.Do(unlock), unlock being close(fin).
unlockOnce(h) ==
    IF h.once THEN h
    ELSE [h EXCEPT !.once = TRUE, !.fin = TRUE, !.closes = @ + 1]

\* The end of Start that returns nil whatever run stored.
loadNothing(h) == [h EXCEPT !.main = "done", !.ret = "nil"]

\* The end of Start: runErr.Load() and the return.
loadErr(h) ==
    [h EXCEPT !.main = "done", !.ret = IF h.runErr = "err" THEN "err" ELSE "nil"]

(***************************************************************************)
(* The state machine: the caller's calls on one Writer.                    *)
(***************************************************************************)
\* The tables the caller defines.
TableShapes ==
    {  [t |-> Table("t", "", <<>>),
        cols |-> << [Col("id", Int64) EXCEPT !.Key = TRUE],
                    [Col("name", String) EXCEPT !.Length = 8] >>],
       [t |-> Table("u", "tagged", <<TagHidden>>),
        cols |-> << [Col("id", Int64) EXCEPT !.Key = TRUE,
                                             !.Tags = <<TagHidden, TagHidden>>] >>] }

\* The column lists the caller narrows a TableRef to.
UseArgs == { <<"id">>, <<"id", "missing">> }

\* The value lists the caller inserts.
ValueSeqs ==
    { <<>>,
      <<VInt(42)>>,
      <<VInt(42), VText(<<104, 101, 108, 108, 111>>)>>,
      <<VInt(42), VText(<<49, 50, 51, 52, 53, 54, 55, 56, 57>>)>>,
      <<VInt(42), VText(<<104, 101, 108, 108, 111>>), VBool(TRUE)>> }

\* The outcomes of the chunk Writes of one Flush: every Write succeeds
\* (failAt = 0), or the Write of chunk failAt fails after accepting p bytes.
WriteOutcomes(failAt, p) ==
    [i \in 1 .. MaxChunks |-> IF i = failAt THEN p ELSE OK]

\* The outcomes to choose from for a call on Writer w: a latched Writer
\* returns before it writes, and no outcome is drawn for it.
OutcomesFor(w) == IF w.err = Nil THEN Outcomes ELSE {OK}

\* Whether the tables buffered in w can still be flushed within MaxChunks.
Flushable(w) == w.chunksWritten + Cardinality(DOMAIN w.rowBuffer) <= MaxChunks

Cur ==
    [err |-> err, sink |-> sink, chunksWritten |-> chunksWritten, table |-> table,
     rowID |-> rowID, control |-> control, rowBuffer |-> rowBuffer, wlog |-> wlog,
     rowTable |-> rowTable, panic |-> FALSE]

\* The Write calls the sink received during the last call.
Writes(w0, w1) == SubSeq(w1.wlog, Len(w0.wlog) + 1, Len(w1.wlog))

\* The record of one call: the method, the error latched when it was made,
\* the arguments of Insert (recorded when the Writer was healthy at the
\* call), the values returned and the Write calls issued.
MkCall(op, t, values, tref, rref, ret, w0, w1) ==
    [op |-> op,
     was |-> w0.err,
     t |-> IF w0.err = Nil THEN t ELSE noRef,
     nvals |-> IF w0.err = Nil THEN Len(values) ELSE 0,
     vals |-> IF w0.err = Nil THEN values ELSE <<>>,
     tref |-> tref, rref |-> rref, ret |-> ret,
     writes |-> Writes(w0, w1)]

\* One more call: a healthy Writer takes at most MaxCalls calls; a call on a
\* latched Writer returns at once and is not counted.
Counted ==
    /\ err # Nil \/ calls < MaxCalls
    /\ calls' = IF err = Nil THEN calls + 1 ELSE calls

Become(w) ==
    /\ err' = w.err
    /\ sink' = w.sink
    /\ chunksWritten' = w.chunksWritten
    /\ table' = w.table
    /\ rowID' = w.rowID
    /\ control' = w.control
    /\ rowBuffer' = w.rowBuffer
    /\ wlog' = w.wlog
    /\ rowTable' = w.rowTable
    /\ start' = start

Init ==
    \E hdr \in Outcomes, failAt \in 0 .. controlColumnTagID, p \in 0 .. MaxPartial :
        LET w == NewWriter(hdr, WriteOutcomes(failAt, p))
        IN /\ (failAt = 0 => p = 0)
           /\ ~w.panic
           /\ err = w.err
           /\ sink = w.sink
           /\ chunksWritten = w.chunksWritten
           /\ table = w.table
           /\ rowID = w.rowID
           /\ control = w.control
           /\ rowBuffer = w.rowBuffer
           /\ wlog = w.wlog
           /\ rowTable = w.rowTable
           /\ refs = {}
           /\ calls = 0
           /\ call = MkCall("NewWriter", noRef, <<>>, noRef, noRow, Nil, MkWriter, w)
           /\ start = NotStarted

CallDefine ==
    \E shape \in TableShapes :
        LET r == Define(Cur, shape.t, shape.cols)
        IN /\ err # Nil \/ (Get(rowID, controlTableID, 0) < MaxDefines /\ Flushable(r.w))
           /\ Counted
           /\ Become(r.w)
           /\ refs' = IF r.ref = errTable THEN refs ELSE refs \cup {r.ref}
           /\ call' = MkCall("Define", noRef, <<>>, r.ref, noRow, Nil, Cur, r.w)

CallInsert ==
    \E d \in refs, values \in ValueSeqs :
        \E t \in (IF err = Nil THEN {d} \cup { Use(d, c) : c \in UseArgs } ELSE {d}) :
            LET r == Insert(Cur, t, values)
            IN /\ err # Nil \/ (Len(Get(rowBuffer, t.id, <<>>)) < MaxRows /\ Flushable(r.w))
               /\ Counted
               /\ Become(r.w)
               /\ refs' = refs
               /\ call' = MkCall("Insert", t, values, noRef, r.ref, Nil, Cur, r.w)

CallFlush ==
    \E hdr \in (IF chunksWritten = 0 THEN OutcomesFor(Cur) ELSE {OK}),
       failAt \in 0 .. (IF err = Nil THEN Cardinality(DOMAIN rowBuffer) ELSE 0),
       p \in 0 .. MaxPartial :
        /\ failAt = 0 => p = 0
        /\ LET w == Flush(Cur, hdr, WriteOutcomes(failAt, p))
           IN /\ Counted
              /\ Become(w)
              /\ refs' = refs
              /\ call' = MkCall("Flush", noRef, <<>>, noRef, noRow, Nil, Cur, w)

CallCancel ==
    \E out \in OutcomesFor(Cur) :
        LET r == Cancel(Cur, out)
        IN /\ Counted
           /\ Become(r.w)
           /\ refs' = refs
           /\ call' = MkCall("Cancel", noRef, <<>>, noRef, noRow, r.ret, Cur, r.w)

CallClose ==
    \E out \in OutcomesFor(Cur) :
        LET r == Close(Cur, out)
        IN /\ Counted
           /\ Become(r.w)
           /\ refs' = refs
           /\ call' = MkCall("Close", noRef, <<>>, noRef, noRow, r.ret, Cur, r.w)

Next == CallDefine \/ CallInsert \/ CallFlush \/ CallCancel \/ CallClose

Spec == Init /\ [][Next]_vars

(***************************************************************************)
(* The construction step by step: NewWriter makes the empty Writer and     *)
(* initControl runs one call at a time; call.op names the last call made.  *)
(* When initControl has returned the caller makes its calls as above.      *)
(***************************************************************************)
BootOps ==
    {"initControl", "csetup", "insertControl", "initControl.Insert", "addFieldType",
     "initControl.Flush"}

\* The position of x in the sequence seq.
IndexOf(seq, x) == CHOOSE i \in 1 .. Len(seq) : seq[i] = x

\* NewWriter up to the call of initControl.
InitBoot ==
    /\ err = MkWriter.err
    /\ sink = MkWriter.sink
    /\ chunksWritten = MkWriter.chunksWritten
    /\ table = MkWriter.table
    /\ rowID = MkWriter.rowID
    /\ control = MkWriter.control
    /\ rowBuffer = MkWriter.rowBuffer
    /\ wlog = MkWriter.wlog
    /\ rowTable = MkWriter.rowTable
    /\ refs = {}
    /\ calls = 0
    /\ call = MkCall("initControl", noRef, <<>>, noRef, noRow, Nil, MkWriter, MkWriter)
    /\ start = NotStarted

\* One call of initControl has been made and left the Writer as w.
Boot(op, t, values, tref, w) ==
    /\ ~w.panic
    /\ Become(w)
    /\ UNCHANGED <<refs, calls>>
    /\ call' = MkCall(op, t, values, tref, noRow, Nil, Cur, w)

\* The next of the seven csetup calls.
BootCsetup ==
    /\ call.op \in {"initControl", "csetup"}
    /\ LET i == IF call.op = "initControl" THEN 1 ELSE call.tref.id + 1
       IN /\ i <= Len(ControlTables)
          /\ LET w == csetup(Cur, ControlTables[i].tid, ControlTables[i].t,
                             ControlTables[i].cols)
             IN Boot("csetup", noRef, <<>>,
                     Get(w.control, ControlTables[i].tid, errTable), w)

\* The next turn of the loop over tableIDList: insertControl of one table.
BootInsertControl ==
    /\ \/ call.op = "csetup" /\ call.tref.id = Len(ControlTables)
       \/ call.op = "insertControl"
    /\ LET tids == tableIDList(Cur)
           k == IF call.op = "csetup" THEN 1 ELSE IndexOf(tids, call.t.id) + 1
       IN /\ k <= Len(tids)
          /\ Boot("insertControl", control[tids[k]], <<>>, noRef,
                  insertControl(Cur, table[tids[k]]))

\* w.Insert(tag, TagHidden, "hidden")
BootInsertTag ==
    /\ call.op = "insertControl"
    /\ IndexOf(tableIDList(Cur), call.t.id) = Len(tableIDList(Cur))
    /\ LET values == <<VTag(TagHidden), VString("hidden")>>
       IN Boot("initControl.Insert", control[controlTagID], values, noRef,
               Insert(Cur, control[controlTagID], values).w)

\* w.addFieldType(Hash, "hash", coderHash{}), then the same for Int64.
BootAddFieldType ==
    \E ft \in { [id |-> Hash, name |-> "hash", bits |-> hashSizeBits],
                 [id |-> Int64, name |-> "int64", bits |-> 64] } :
        /\ \/ ft.id = Hash /\ call.op = "initControl.Insert"
           \/ ft.id = Int64 /\ call.op = "addFieldType" /\ call.vals[1].n = Hash
        /\ Boot("addFieldType", control[controlFieldTypeID],
                <<VInt64(ft.id), VInt64(ft.bits), VString(ft.name)>>, noRef,
                addFieldType(Cur, ft.id, ft.name, ft.bits))

\* w.Flush() of initControl
BootFlush ==
    \E hdr \in Outcomes, failAt \in 0 .. controlColumnTagID, p \in 0 .. MaxPartial :
        /\ call.op = "addFieldType"
        /\ call.vals[1].n = Int64
        /\ failAt = 0 => p = 0
        /\ Boot("initControl.Flush", noRef, <<>>, noRef,
                Flush(Cur, hdr, WriteOutcomes(failAt, p)))

\* w.Insert(version, 0); initControl and NewWriter return.
BootVersion ==
    /\ call.op = "initControl.Flush"
    /\ LET w == Insert(Cur, control[controlVersionID], <<VInt(0)>>).w
       IN /\ Become(w)
          /\ UNCHANGED <<refs, calls>>
          /\ call' = MkCall("NewWriter", noRef, <<>>, noRef, noRow, Nil, MkWriter, w)

\* The caller's calls, once NewWriter has returned.
CallsOnWriter ==
    /\ call.op \notin BootOps
    /\ Next

NextBoot ==
    \/ BootCsetup \/ BootInsertControl \/ BootInsertTag \/ BootAddFieldType
    \/ BootFlush \/ BootVersion
    \/ CallsOnWriter

SpecBoot == InitBoot /\ [][NextBoot]_vars

(***************************************************************************)
(* The caller narrowing TableRefs: a Writer with one table defined, and    *)
(* calls of Use on the refs the caller holds (the ref Define returned, the *)
(* sentinel, and the refs earlier calls of Use returned).                  *)
(***************************************************************************)
\* The column names the caller passes to Use.
UseNames == {"id", "Name", "missing"}

\* The column lists of up to n names.
ColumnLists(n) == UNION { [1 .. k -> UseNames] : k \in 0 .. n }

\* The record of one call of Use: the receiver, the argument, the result.
MkUse(op, t, columns, ut) == [op |-> op, t |-> t, cols |-> columns, tref |-> ut]

InitUse ==
    \E shape \in TableShapes :
        LET w == NewWriter(OK, WriteOutcomes(0, 0))
            d == Define(w, shape.t, shape.cols)
        IN /\ ~d.w.panic
           /\ err = d.w.err
           /\ sink = d.w.sink
           /\ chunksWritten = d.w.chunksWritten
           /\ table = d.w.table
           /\ rowID = d.w.rowID
           /\ control = d.w.control
           /\ rowBuffer = d.w.rowBuffer
           /\ wlog = d.w.wlog
           /\ rowTable = d.w.rowTable
           /\ refs = {d.ref, errTable}
           /\ calls = 1
           /\ call = MkUse("Define", noRef, <<>>, d.ref)
           /\ start = NotStarted

\* ut := t.Use(columns...); the caller keeps t and ut.
CallUse ==
    \E t \in refs, columns \in ColumnLists(MaxUse) :
        LET ut == Use(t, columns)
        IN /\ refs' = {t, ut}
           /\ call' = MkUse("Use", t, columns, ut)
           /\ UNCHANGED <<err, sink, chunksWritten, table, rowID, control, rowBuffer,
                          wlog, rowTable, calls, start>>

NextUse == CallUse

SpecUse == InitUse /\ [][NextUse]_vars

\* coderBytes.Encode; wlen is the length of the scratch slice, writeTo the
\* whole of its backing array.  []byte(v) allocates an array of the size
\* class that holds v, zero after the bytes of v; make allocates exactly
\* len(v) bytes.  The string branch copies into the scratch at its own
\* length, the []byte branch after reslicing it to len(v).
coderBytesEncode(col, writeTo, wlen, value) ==
    LET v == value.b
    IN IF value.k = "string"
       THEN IF Len(writeTo) < Len(v)
            THEN Encoded(v, CopyAt(Zeros(roundupsize(Len(v))), 0, v), Nil)
            ELSE LET n == Min(wlen, Len(v))
                     arr == CopyAt(writeTo, 0, SubSeq(v, 1, n))
                 IN Resliced(writeTo, SubSeq(arr, 1, n), arr, Nil)
       ELSE IF value.k = "[]byte"
       THEN IF Len(writeTo) < Len(v)
            THEN Encoded(v, CopyAt(Zeros(Len(v)), 0, v), Nil)
            ELSE LET arr == CopyAt(writeTo, 0, v)
                 IN Resliced(writeTo, SubSeq(arr, 1, Len(v)), arr, Nil)
       ELSE Resliced(writeTo, SubSeq(writeTo, 1, wlen), writeTo, ErrUnknownType)

(***************************************************************************)
(* The codecs on their own: an Encode call of one codec with a column, a   *)
(* scratch slice and a value; the scratch is nil or the slice an earlier   *)
(* Encode of the same codec returned.                                      *)
(***************************************************************************)
\* The pieces texts are made of: the runes "h", U+00E9 (two bytes) and
\* U+FFFD (three bytes), the byte FF, and the lead byte C3 without its
\* continuation.
TextUnits == { <<104>>, <<195, 169>>, <<239, 191, 189>>, <<255>>, <<195>> }

\* The texts of up to n pieces.
RECURSIVE Texts(_)
Texts(n) ==
    IF n = 0 THEN { <<>> }
    ELSE Texts(n - 1) \cup { t \o u : t \in Texts(n - 1), u \in TextUnits }

HashValues ==
    { VArr8(<<1, 2, 3, 4, 5, 6, 7, 8>>),
      VBytes(<<1, 2, 3, 4, 5, 6, 7, 8>>),
      VBytes([i \in 1 .. hashSizeBytes |-> 171]),
      VBytes(<<>>),
      VInt64(1) }

Int64Values ==
    { VInt64(n) : n \in {-2147483647, -256, -1, 0, 42, 256, 2147483647} }
    \cup { VInt(n) : n \in {-2147483647, -256, -1, 0, 42, 256, 2147483647} }
    \cup { VBool(TRUE), VText(<<52, 50>>), VBytes(<<42, 0, 0, 0, 0, 0, 0, 0>>) }

StringValues ==
    { VText(t) : t \in Texts(MaxRunes) } \cup { VBytes(t) : t \in Texts(MaxRunes) }
    \cup { VInt(1) }

\* The Encode calls of the codecs: codec, column, scratch, value.
CodecInput(codec, col, writeTo, value) ==
    [op |-> "input", codec |-> codec, col |-> col, writeTo |-> writeTo, value |-> value,
     wlen |-> Len(writeTo), res |-> Encoded(<<>>, <<>>, Nil)]

HashInputs ==
    LET col == Col("version", Hash)
    IN { CodecInput("Hash", col, scratch, v) :
            scratch \in {<<>>} \cup { coderHashEncode(col, <<>>, e).arr : e \in HashValues },
            v \in HashValues }

Int64Inputs ==
    LET col == Col("id", Int64)
    IN { CodecInput("Int64", col, scratch, v) :
            scratch \in {<<>>, coderInt64Encode(col, <<>>, VInt64(-1)).arr},
            v \in Int64Values }

\* The scratch of a String call is nil or the slice an earlier Encode
\* returned, resliced by the caller to any length within its capacity.
StringInputs ==
    LET arr == coderStringEncode(Col("name", String), <<>>, 0, VText(<<104, 195, 169>>)).arr
    IN UNION { { [CodecInput("String", [Col("name", String) EXCEPT !.Length = l], scratch, v)
                     EXCEPT !.wlen = n] :
                    l \in 0 .. MaxRunes, n \in 0 .. Len(scratch), v \in StringValues } :
               scratch \in {<<>>, arr} }

\* The scratch of a Bytes call is nil or the slice an earlier Encode
\* returned, resliced by the caller to any length within its capacity.
BytesInputs ==
    LET col == Col("data", Bytes)
        ofString == coderBytesEncode(col, <<>>, 0, VText(<<104, 195, 169>>)).arr
        ofBytes == coderBytesEncode(col, <<>>, 0, VBytes(<<104, 195, 169>>)).arr
    IN UNION { { [CodecInput("Bytes", [col EXCEPT !.Length = l], scratch, v)
                     EXCEPT !.wlen = n] :
                    l \in 0 .. MaxRunes, n \in 0 .. Len(scratch), v \in StringValues } :
               scratch \in {<<>>, ofString, ofBytes} }

InitCodec ==
    /\ err = MkWriter.err
    /\ sink = MkWriter.sink
    /\ chunksWritten = MkWriter.chunksWritten
    /\ table = MkWriter.table
    /\ rowID = MkWriter.rowID
    /\ control = MkWriter.control
    /\ rowBuffer = MkWriter.rowBuffer
    /\ wlog = MkWriter.wlog
    /\ rowTable = MkWriter.rowTable
    /\ refs = {}
    /\ calls = 0
    /\ call \in HashInputs \cup Int64Inputs \cup StringInputs \cup BytesInputs
    /\ start = NotStarted

\* The call returns: res is what Encode returned.
Returned(res) ==
    /\ call' = [call EXCEPT !.op = "Encode", !.res = res]
    /\ UNCHANGED <<err, sink, chunksWritten, table, rowID, control, rowBuffer, wlog,
                   rowTable, refs, calls, start>>

EncodeHash ==
    /\ call.op = "input"
    /\ call.codec = "Hash"
    /\ Returned(coderHashEncode(call.col, call.writeTo, call.value))

EncodeInt64 ==
    /\ call.op = "input"
    /\ call.codec = "Int64"
    /\ Returned(coderInt64Encode(call.col, call.writeTo, call.value))

EncodeString ==
    /\ call.op = "input"
    /\ call.codec = "String"
    /\ Returned(coderStringEncode(call.col, call.writeTo, call.wlen, call.value))

EncodeBytes ==
    /\ call.op = "input"
    /\ call.codec = "Bytes"
    /\ Returned(coderBytesEncode(call.col, call.writeTo, call.wlen, call.value))

NextCodec == EncodeHash \/ EncodeInt64 \/ EncodeString \/ EncodeBytes

SpecCodec == InitCodec /\ [][NextCodec]_vars

(***************************************************************************)
(* Start as a state machine: one action per step of its three goroutines,  *)
(* the arrival of a signal, and the caller cancelling the context.         *)
(***************************************************************************)
InitStart ==
    /\ err = MkWriter.err
    /\ sink = MkWriter.sink
    /\ chunksWritten = MkWriter.chunksWritten
    /\ table = MkWriter.table
    /\ rowID = MkWriter.rowID
    /\ control = MkWriter.control
    /\ rowBuffer = MkWriter.rowBuffer
    /\ wlog = MkWriter.wlog
    /\ rowTable = MkWriter.rowTable
    /\ refs = {}
    /\ calls = 0
    /\ call = [op |-> "Start"]
    /\ start = MkStart("select", "running", FALSE)

Step(h) ==
    /\ start' = h
    /\ UNCHANGED <<err, sink, chunksWritten, table, rowID, control, rowBuffer, wlog,
                   rowTable, refs, calls, call>>

\* signal.Notify delivers an interrupt; it is dropped when the channel is full.
Signal ==
    /\ start.main # "none"
    /\ start.sent < MaxSignals
    /\ Step([start EXCEPT !.sent = @ + 1, !.notify = Min(@ + 1, notifyCap)])

\* The caller of Start cancels the context it passed in.
ParentCancel ==
    /\ start.main # "none"
    /\ ~start.parent
    /\ Step([start EXCEPT !.parent = TRUE])

\* err := run(ctx) returns e.
RunReturns ==
    \E e \in {"nil", "err"} :
        /\ start.run = "running"
        /\ Step([start EXCEPT !.returned = e, !.late = start.expired,
                              !.run = IF e = "err" THEN "store" ELSE "unlock"])

\* runErr.Store(err)
RunStore ==
    /\ start.run = "store"
    /\ Step([start EXCEPT !.runErr = "err", !.run = "unlock"])

\* unlockOnce() of the goroutine of run
RunUnlock ==
    /\ start.run = "unlock"
    /\ Step([unlockOnce(start) EXCEPT !.run = "done"])

\* select: case <-notify
SelectNotify ==
    /\ start.main = "select"
    /\ start.notify > 0
    /\ Step([start EXCEPT !.notify = @ - 1, !.woke = "notify", !.main = "cancel"])

\* select: case <-fin
SelectFin ==
    /\ start.main = "select"
    /\ start.fin
    /\ Step([start EXCEPT !.woke = "fin", !.main = "cancel"])

\* cancel()
Cancel_ ==
    /\ start.main = "cancel"
    /\ Step([start EXCEPT !.cancel = TRUE, !.main = "go"])

\* go func() { <-time.After(stopTimeout); unlockOnce() }()
GoTimer ==
    /\ start.main = "go"
    /\ Step([start EXCEPT !.timer = "sleep", !.main = "wait"])

\* <-time.After(stopTimeout)
TimerFires ==
    /\ start.timer = "sleep"
    /\ Step([start EXCEPT !.expired = TRUE, !.timer = "unlock"])

\* unlockOnce() of the goroutine of the stop-timeout
TimerUnlock ==
    /\ start.timer = "unlock"
    /\ Step([unlockOnce(start) EXCEPT !.timer = "done"])

\* <-fin
WaitFin ==
    /\ start.main = "wait"
    /\ start.fin
    /\ Step([start EXCEPT !.main = "load"])

\* runErr.Load() and return
Return ==
    /\ start.main = "load"
    /\ Step(loadErr(start))

NextStart ==
    \/ Signal \/ ParentCancel
    \/ RunReturns \/ RunStore \/ RunUnlock
    \/ SelectNotify \/ SelectFin \/ Cancel_ \/ GoTimer \/ WaitFin \/ Return
    \/ TimerFires \/ TimerUnlock

SpecStart == InitStart /\ [][NextStart]_vars

\* The scheduler runs every goroutine that can take a step, and a timer that
\* was started fires; run itself need not return, and no signal need come.
FairStart ==
    /\ WF_vars(RunStore) /\ WF_vars(RunUnlock)
    /\ WF_vars(SelectNotify) /\ WF_vars(SelectFin) /\ WF_vars(Cancel_)
    /\ WF_vars(GoTimer) /\ WF_vars(WaitFin) /\ WF_vars(Return)
    /\ WF_vars(TimerFires) /\ WF_vars(TimerUnlock)

SpecStartLive == SpecStart /\ FairStart

(***************************************************************************)
(* Properties.                                                             *)
(***************************************************************************)
\* Whether one of the Write calls in ws returned an error.
AnyFailed(ws) == \E i \in 1 .. Len(ws) : ws[i].failed

\* The number of trailer Writes the sink has received.
TrailerWrites(log) == Cardinality({i \in 1 .. Len(log) : log[i].kind \in {"eof", "cancel"}})

\* The number of header Writes the sink has received.
HeaderWrites(log) == Cardinality({i \in 1 .. Len(log) : log[i].kind = "header"})

\* The last n bytes of s.
Tail2(s) == IF Len(s) < 2 THEN s ELSE SubSeq(s, Len(s) - 1, Len(s))

\* The Writes of chunks among the Write calls ws.
ChunkWrites(ws) == SelectSeq(ws, LAMBDA e : e.kind = "chunk")

\* The chunks the sink accepted in full.
ChunksWritten == ChunkWrites(SelectSeq(wlog, LAMBDA e : ~e.failed))

\* The bytes of the stream that Write e put on the sink.
WrittenBytes(e) == SubSeq(sink, e.off + 1, e.off + e.n)

\* The number that the bytes b encode in little-endian order.
RECURSIVE FromLittleEndian(_)
FromLittleEndian(b) ==
    IF b = <<>> THEN 0 ELSE Head(b) + 256 * FromLittleEndian(Tail(b))

\* C1: once the terminal error is latched, Define returns the sentinel
\* TableRef, Insert returns the sentinel RowRef, and no call (Flush included)
\* changes the row buffer, the table registry, the row-id counters or the
\* bytes on the sink.
C1_LatchedNoOp ==
    [][err # Nil =>
          /\ rowBuffer' = rowBuffer
          /\ table' = table
          /\ rowID' = rowID
          /\ sink' = sink
          /\ (call'.op = "Define" => call'.tref = errTable /\ call'.tref.id = -1)
          /\ (call'.op = "Insert" => call'.rref = errRow /\ call'.rref.id = -1)]_vars

\* A Flush was called on a latched Writer that still holds buffered rows.
C1_Witness ==
    /\ call.op = "Flush"
    /\ call.was # Nil
    /\ DOMAIN rowBuffer # {}
    /\ err = call.was

\* C2: first error wins: once Error() is non-nil, no call changes it.
C2_FirstErrorWins == [][err # Nil => err' = err]_vars

\* Close was called with an error other than end-of-stream latched, and
\* Error() still returns that error.
C2_Witness ==
    /\ call.op = "Close"
    /\ call.was \notin {Nil, ioEOF}
    /\ err = call.was

\* C3: a non-empty sink starts with the eight header bytes, and the header
\* is written once.
C3_HeaderFirstOnce ==
    /\ sink # <<>> => IsPrefix(<<1, 83, 67, 68, 48, 49, 0, 2>>, sink)
    /\ HeaderWrites(wlog) <= 1

\* C4: at most one trailer is ever written, after a trailer Write no call
\* writes a byte, and a trailer the sink accepted is the end of the stream.
C4_OneTrailerLast ==
    [][/\ TrailerWrites(wlog') <= 1
       /\ TrailerWrites(wlog) >= 1 => (sink' = sink /\ wlog' = wlog)
       /\ (TrailerWrites(wlog') >= 1 /\ ~wlog'[Len(wlog')].failed) =>
              Tail2(sink') \in {<<28, 4>>, <<28, 24>>}]_vars

\* After the trailer was written, Flush was called with rows still buffered.
C4_Witness ==
    /\ TrailerWrites(wlog) = 1
    /\ call.op = "Flush"
    /\ call.was = ioEOF
    /\ DOMAIN rowBuffer # {}
    /\ Tail2(sink) \in {<<28, 4>>, <<28, 24>>}

\* C5: on a healthy Writer Close issues one Write of the two bytes 1C 04 and
\* Cancel one Write of 1C 18, the sink grows by exactly what it accepted of
\* them (both bytes when the Write succeeds), Error() is end-of-stream
\* afterwards, and a further Close or Cancel returns that error.
C5_Trailers ==
    [][/\ (err = Nil /\ call'.op \in {"Close", "Cancel"}) =>
              LET trailer == IF call'.op = "Close" THEN <<28, 4>> ELSE <<28, 24>>
                  ws == call'.writes
              IN /\ Len(ws) = 1
                 /\ ws[1].kind = (IF call'.op = "Close" THEN "eof" ELSE "cancel")
                 /\ ws[1].len = 2
                 /\ sink' = sink \o SubSeq(trailer, 1, ws[1].n)
                 /\ ~ws[1].failed => sink' = sink \o trailer
                 /\ err' = ioEOF
       /\ (err = ioEOF /\ call'.op \in {"Close", "Cancel"}) =>
              /\ call'.ret = ioEOF
              /\ err' = ioEOF
              /\ sink' = sink]_vars

\* Close has written its trailer, and a further Cancel returned end-of-stream.
C5_Witness ==
    /\ call.op = "Cancel"
    /\ call.was = ioEOF
    /\ call.ret = ioEOF
    /\ Tail2(sink) = <<28, 4>>
    /\ err = ioEOF

\* C6 as claimed: with an error other than end-of-stream latched, Close
\* writes the EOF trailer and Cancel the CANCEL trailer, and each returns
\* the latched error.
C6_AsClaimed ==
    (call.op \in {"Close", "Cancel"} /\ call.was \notin {Nil, ioEOF}) =>
        /\ Len(call.writes) = 1
        /\ call.writes[1].kind = (IF call.op = "Close" THEN "eof" ELSE "cancel")
        /\ call.ret = call.was

\* C6 as amended: with an error other than end-of-stream latched, Close and
\* Cancel write nothing, return the latched error and leave it latched.
C6_LatchedCloseWritesNothing ==
    [][(err \notin {Nil, ioEOF} /\ call'.op \in {"Close", "Cancel"}) =>
          /\ call'.writes = <<>>
          /\ sink' = sink
          /\ wlog' = wlog
          /\ call'.ret = err
          /\ err' = err]_vars

\* Close was called after an Insert had latched a value-count error.
C6_Witness ==
    /\ call.op = "Close"
    /\ call.was.kind = "value count"
    /\ call.ret = call.was
    /\ call.writes = <<>>

\* C7: a Close or Cancel whose trailer Write failed does not return nil.
C7_TrailerErrorReturned ==
    (call.op \in {"Close", "Cancel"} /\ AnyFailed(call.writes)) => call.ret # Nil

\* C8: when a Write issued by Flush (the Flush of the construction included)
\* returned an error, Error() is non-nil when the call returns.
C8_FlushErrorLatched ==
    (call.op \in {"Flush", "NewWriter"} /\ AnyFailed(call.writes)) => err # Nil

\* C9: Insert on a healthy Writer through a ref without invalid names, with
\* a number of values other than the number of selected columns, latches the
\* value-count error, returns the sentinel RowRef and leaves the row buffer
\* and the sink as they were.
C9_CountMismatch ==
    [][(/\ call'.op = "Insert"
        /\ err = Nil
        /\ call'.t.invalid = <<>>
        /\ call'.nvals # Len(call'.t.col)) =>
          /\ err' = ErrValueCount(Len(call'.t.col), call'.nvals)
          /\ err'.kind = "value count"
          /\ call'.rref = errRow
          /\ rowBuffer' = rowBuffer
          /\ sink' = sink]_vars

\* An Insert with more values than selected columns latched the error.
C9_Witness ==
    /\ call.op = "Insert"
    /\ call.was = Nil
    /\ call.t.invalid = <<>>
    /\ call.nvals > Len(call.t.col)
    /\ err.kind = "value count"
    /\ err.a = Len(call.t.col)
    /\ err.b = call.nvals

\* C10: Insert on a healthy Writer through a ref with invalid names latches
\* the invalid-names error with those names, returns the sentinel RowRef and
\* buffers nothing, whether or not the number of values matches.
C10_InvalidNames ==
    [][(/\ call'.op = "Insert"
        /\ err = Nil
        /\ call'.t.invalid # <<>>) =>
          /\ err' = ErrInvalidNames(call'.t.invalid)
          /\ err'.kind = "invalid table names"
          /\ call'.rref = errRow
          /\ rowBuffer' = rowBuffer]_vars

\* An Insert through a ref with an invalid name and as many values as
\* selected columns latched the invalid-names error.
C10_Witness ==
    /\ call.op = "Insert"
    /\ call.was = Nil
    /\ call.t.invalid = <<"missing">>
    /\ call.nvals = Len(call.t.col)
    /\ err = ErrInvalidNames(<<"missing">>)

\* The column names of the table registered under tid; none when no table
\* is registered under it.
ColumnNames(tid) ==
    IF tid \in DOMAIN table
    THEN {table[tid].Columns[i].Name : i \in 1 .. Len(table[tid].Columns)}
    ELSE {}

\* C11: t.Use(cols) returns a ref with the table id of t, with cols as the
\* selected columns in the given order, and with an invalid list that holds
\* exactly the members of cols that are not column names of the table, in
\* order of appearance; the caller's t and the Writer stay as they were.
C11_Use ==
    [][call'.op = "Use" =>
          LET t == call'.t
              ut == call'.tref
              NotAColumn(c) == c \notin ColumnNames(t.id)
          IN /\ t \in refs
             /\ ut.id = t.id
             /\ ut.col = call'.cols
             /\ ut.invalid = SelectSeq(call'.cols, NotAColumn)
             /\ t \in refs'
             /\ UNCHANGED <<err, sink, chunksWritten, table, rowID, control, rowBuffer,
                            wlog, rowTable>>]_vars

\* Use was called on a ref of a defined table that already had an invalid
\* name, with two names the table does not have.
C11_Witness ==
    /\ call.op = "Use"
    /\ call.t.id \in DOMAIN table
    /\ call.t.invalid # <<>>
    /\ call.cols = <<"missing", "Name">>
    /\ call.tref.col = <<"missing", "Name">>
    /\ call.tref.invalid = <<"missing", "Name">>

\* C12: an Insert on a healthy Writer through a ref without invalid names,
\* with as many values as selected columns, appends one row to the buffer
\* kept under the ref's table id, leaves every other buffer, the sink and the
\* error as they were, and returns the RowRef of that table id with row id -1.
C12_InsertAppends ==
    [][(/\ call'.op = "Insert"
        /\ err = Nil
        /\ call'.t.invalid = <<>>
        /\ call'.nvals = Len(call'.t.col)) =>
          LET tid == call'.t.id
              old == Get(rowBuffer, tid, <<>>)
          IN /\ DOMAIN rowBuffer' = DOMAIN rowBuffer \cup {tid}
             /\ Len(rowBuffer'[tid]) = Len(old) + 1
             /\ SubSeq(rowBuffer'[tid], 1, Len(old)) = old
             /\ \A other \in DOMAIN rowBuffer \ {tid} : rowBuffer'[other] = rowBuffer[other]
             /\ sink' = sink
             /\ wlog' = wlog
             /\ call'.writes = <<>>
             /\ call'.rref.table = tid
             /\ call'.rref.id = -1
             /\ err' = Nil]_vars

\* An Insert through a narrowed ref succeeded while the table's buffer held
\* a row already and other tables had rows buffered.
C12_Witness ==
    /\ call.op = "Insert"
    /\ call.was = Nil
    /\ err = Nil
    /\ call.t.col = <<"id">>
    /\ call.nvals = 1
    /\ call.rref = RowRef(call.t.id, -1)
    /\ Len(rowBuffer[call.t.id]) >= 2
    /\ DOMAIN rowBuffer \ {call.t.id} # {}

\* C13: a Flush with an empty row buffer writes nothing and changes no state
\* of the Writer; the second of two consecutive Flush calls writes no byte.
C13_EmptyFlush ==
    [][/\ (call'.op = "Flush" /\ DOMAIN rowBuffer = {}) =>
              /\ call'.writes = <<>>
              /\ UNCHANGED <<err, sink, chunksWritten, table, rowID, control, rowBuffer,
                             wlog, rowTable>>
       /\ (call'.op = "Flush" /\ call.op = "Flush") =>
              /\ call'.writes = <<>>
              /\ sink' = sink]_vars

\* A Flush that wrote chunks was followed by a Flush on the healthy Writer,
\* whose row buffer was empty.
C13_Witness ==
    /\ call.op = "Flush"
    /\ call.was = Nil
    /\ err = Nil
    /\ call.writes = <<>>
    /\ DOMAIN rowBuffer = {}
    /\ calls >= 2

\* C14: a Flush on a healthy Writer that latches no error writes one chunk
\* for every table that had rows buffered and for no other table, in strictly
\* ascending order of table id, and every row of a chunk was inserted for
\* the table registered under the chunk's table id.
C14_ChunkPerTable ==
    [][(call'.op = "Flush" /\ err = Nil /\ err' = Nil) =>
          LET cs == ChunkWrites(call'.writes)
          IN /\ Len(cs) = Cardinality(DOMAIN rowBuffer)
             /\ {cs[i].tid : i \in 1 .. Len(cs)} = DOMAIN rowBuffer
             /\ \A i \in 1 .. Len(cs) - 1 : cs[i].tid < cs[i + 1].tid
             /\ \A i \in 1 .. Len(cs) :
                    /\ Len(cs[i].rows) = Len(rowBuffer[cs[i].tid])
                    /\ cs[i].tid \in DOMAIN table
                    /\ \A k \in 1 .. Len(cs[i].rows) :
                           cs[i].rows[k] = table[cs[i].tid].Name]_vars

\* C15: every chunk on the sink is the marker FS 'C', eight bytes of
\* chunk_size, eight bytes of table_id, eight bytes of row_count holding the
\* number of rows of the chunk, a row-offset list of nine bytes per row, and
\* the row payloads, each starting with RS.
C15_ChunkLayout ==
    \A i \in 1 .. Len(ChunksWritten) :
        LET e == ChunksWritten[i]
            b == WrittenBytes(e)
            n == Len(e.rows)
        IN /\ Len(b) >= 2 + 8 + 8 + 8 + 9 * n + 2 * n
           /\ SubSeq(b, 1, 2) = <<28, 67>>
           /\ FromLittleEndian(SubSeq(b, 11, 18)) = e.tid
           /\ FromLittleEndian(SubSeq(b, 19, 26)) = n
           /\ n > 0 => b[26 + 9 * n + 1] = 30

\* C16: the chunk_size field of every chunk on the sink is the number of
\* bytes written from the first byte of table_id to the end of the chunk.
C16_ChunkSize ==
    \A i \in 1 .. Len(ChunksWritten) :
        LET b == WrittenBytes(ChunksWritten[i])
        IN /\ Len(b) >= 2 + 8
           /\ FromLittleEndian(SubSeq(b, 3, 10)) = Len(b) - (2 + 8)

\* C17: every chunk on the sink carries, after table_id and row_count, one
\* entry {row_type, offset} per row, and the offset of entry k, counted from
\* the first byte of table_id, is the position of the RS of the marker RS 'R'
\* of row k.
C17_RowOffsets ==
    \A i \in 1 .. Len(ChunksWritten) :
        LET e == ChunksWritten[i]
            b == WrittenBytes(e)
            body == SubSeq(b, 2 + 8 + 1, Len(b))
            n == Len(e.rows)
        IN /\ Len(body) >= 8 + 8 + 9 * n + 2 * n
           /\ \A k \in 1 .. n :
                  LET at == 8 + 8 + 9 * (k - 1)
                      offset == FromLittleEndian(SubSeq(body, at + 2, at + 9))
                  IN /\ body[at + 1] = 82
                     /\ offset + 2 <= Len(body)
                     /\ body[offset + 1] = 30
                     /\ body[offset + 2] = 82

\* The names of the control tables, in the order of their ids.
ControlNames ==
    << "control/version", "control/tag", "control/table", "control/table/tag",
       "control/fieldtype", "control/column", "control/column/tag" >>

\* C18: when NewWriter returns, the registry holds the seven control tables
\* and no other, control/version under id 1 up to control/column/tag under
\* id 7, each with a ref of its own id; and csetup, called on any Writer,
\* either registers the table under the id asked for or panics: it panics when
\* cdefine cannot return that id.
C18_ControlCatalog ==
    /\ call.op = "NewWriter" =>
           /\ DOMAIN table = 1 .. 7
           /\ DOMAIN control = 1 .. 7
           /\ \A i \in 1 .. 7 :
                  /\ table[i].ID = i
                  /\ table[i].Name = ControlNames[i]
                  /\ control[i].id = i
    /\ \A i \in 1 .. 7 :
           LET w == csetup(Cur, i, Table(ControlNames[i], "", <<>>), <<Col("id", Int64)>>)
           IN IF cdefine(Cur, i, Table(ControlNames[i], "", <<>>), <<Col("id", Int64)>>).ref.id # i
              THEN w.panic
              ELSE /\ ~w.panic
                   /\ w.control[i].id = i
                   /\ w.table[i].ID = i

\* NewWriter has returned a Writer whose construction Flush latched a write
\* error: the registry holds the seven tables, and a further csetup on this
\* Writer could not get its id from cdefine.
C18_Witness ==
    /\ call.op = "NewWriter"
    /\ err = ErrSink
    /\ DOMAIN table = 1 .. 7
    /\ table[7].Name = "control/column/tag"
    /\ cdefine(Cur, 1, Table("control/version", "", <<>>), <<>>).ref = errTable

\* C19: a Define on a healthy Writer returns a table id greater than every
\* id registered before, so none of the ids 1..7 of the control tables, and
\* leaves the registry entry of every table registered before as it was.
C19_FreshTableID ==
    [][(call'.op = "Define" /\ err = Nil) =>
          /\ \A id \in DOMAIN table : call'.tref.id > id
          /\ call'.tref.id \notin 1 .. 7
          /\ \A id \in DOMAIN table : table'[id] = table[id]]_vars

\* The number of rows buffered under tid in the row buffer buf.
Buffered(buf, tid) == Len(Get(buf, tid, <<>>))

\* The number of tags of the columns cols.
RECURSIVE ColumnTagCount(_)
ColumnTagCount(cols) ==
    IF cols = <<>> THEN 0 ELSE Len(Head(cols).Tags) + ColumnTagCount(Tail(cols))

\* C20: a Define on a healthy Writer of a table with t table tags, c columns
\* and k column tags in total appends 1 row to the buffer of control/table
\* (id 3), t rows to control/table/tag (4), c rows to control/column (6) and
\* k rows to control/column/tag (7), leaves every other buffer as it was,
\* latches no error and writes nothing to the sink.
C20_DefineCatalogRows ==
    [][(call'.op = "Define" /\ err = Nil) =>
          LET ti == table'[call'.tref.id]
              added == [tid \in 1 .. 7 |->
                           CASE tid = 3 -> 1
                             [] tid = 4 -> Len(ti.Tags)
                             [] tid = 6 -> Len(ti.Columns)
                             [] tid = 7 -> ColumnTagCount(ti.Columns)
                             [] OTHER -> 0]
          IN /\ DOMAIN rowBuffer' \subseteq 1 .. 7
             /\ \A tid \in 1 .. 7 :
                    /\ Buffered(rowBuffer', tid) = Buffered(rowBuffer, tid) + added[tid]
                    /\ SubSeq(Get(rowBuffer', tid, <<>>), 1, Buffered(rowBuffer, tid))
                           = Get(rowBuffer, tid, <<>>)
             /\ err' = Nil
             /\ sink' = sink
             /\ call'.writes = <<>>]_vars

\* Define has registered a table with one table tag and two tags on its
\* column, and the rows for them are buffered.
C20_Witness ==
    /\ call.op = "Define"
    /\ call.was = Nil
    /\ err = Nil
    /\ call.tref.id \in DOMAIN table
    /\ Len(table[call.tref.id].Tags) = 1
    /\ ColumnTagCount(table[call.tref.id].Columns) = 2
    /\ Buffered(rowBuffer, 4) >= 1
    /\ Buffered(rowBuffer, 7) >= 2

\* C21: the chunk of control/fieldtype that the construction writes holds
\* six rows, one for every Type.
C21_SixFieldTypes ==
    call.op = "NewWriter" =>
        \A i \in 1 .. Len(wlog) :
            (wlog[i].kind = "chunk" /\ wlog[i].tid = 5) => Len(wlog[i].rows) = 6

\* C22: when NewWriter returns, the sink has received no Write and holds no
\* byte.
C22_ConstructionWritesNothing ==
    call.op = "NewWriter" => (sink = <<>> /\ wlog = <<>>)

\* C23: as long as no Write has failed and the caller has called nothing but
\* Flush since the construction (no table defined, no trailer written),
\* Error() is nil.
C23_CatalogFlushesClean ==
    (/\ ~AnyFailed(wlog)
     /\ refs = {}
     /\ TrailerWrites(wlog) = 0
     /\ call.op \in {"NewWriter", "Flush"}) => err = Nil

\* Over a sink that never failed, the caller has called Flush twice and
\* nothing else; the first Flush wrote the chunk of control/version.
C23_Witness ==
    /\ call.op = "Flush"
    /\ calls >= 2
    /\ refs = {}
    /\ TrailerWrites(wlog) = 0
    /\ ~AnyFailed(wlog)
    /\ wlog[Len(wlog)].kind = "chunk"
    /\ wlog[Len(wlog)].tid = 1
    /\ err = Nil

\* C24: after NewWriter over a sink that never fails and an immediate Close,
\* the sink holds the header, then chunks, then 1C 04 and nothing else, the
\* chunks carry every row inserted during the construction (none is left in
\* the row buffer), and one of them carries the row of control/version.
C24_CloseAfterNew ==
    (call.op = "Close" /\ call.was = Nil /\ calls = 1 /\ ~AnyFailed(wlog)) =>
        /\ IsPrefix(<<1, 83, 67, 68, 48, 49, 0, 2>>, sink)
        /\ Tail2(sink) = <<28, 4>>
        /\ wlog[1].kind = "header"
        /\ wlog[Len(wlog)].kind = "eof"
        /\ wlog[Len(wlog)].off + 2 = Len(sink)
        /\ \A i \in 2 .. Len(wlog) - 1 : wlog[i].kind = "chunk"
        /\ DOMAIN rowBuffer = {}
        /\ \E i \in 2 .. Len(wlog) - 1 :
               wlog[i].tid = 1 /\ wlog[i].rows = <<"control/version">>

\* C27: Close and Cancel write no chunk and leave the row buffer as it was,
\* and once a trailer Write has been issued no call writes to the sink or
\* takes a row from the row buffer.
C27_CloseDoesNotFlush ==
    [][/\ call'.op \in {"Close", "Cancel"} =>
              /\ ChunkWrites(call'.writes) = <<>>
              /\ rowBuffer' = rowBuffer
       /\ TrailerWrites(wlog) >= 1 =>
              /\ ChunkWrites(call'.writes) = <<>>
              /\ sink' = sink
              /\ rowBuffer' = rowBuffer]_vars

\* Close was called on the healthy Writer while a row inserted by the caller
\* was buffered, a Flush followed, and the row is still in the buffer.
C27_Witness ==
    /\ call.op = "Flush"
    /\ call.was = ioEOF
    /\ wlog[Len(wlog)].kind = "eof"
    /\ \E tid \in DOMAIN rowBuffer : Len(rowBuffer[tid]) >= 2
    /\ call.writes = <<>>

\* The integer that the bytes b encode in little-endian two's complement.
TwosComplement(b) ==
    IF b[Len(b)] >= 128
    THEN -1 - FromLittleEndian([i \in 1 .. Len(b) |-> 255 - b[i]])
    ELSE FromLittleEndian(b)

\* The number of runes of the UTF-8 text b, -1 when b is not valid UTF-8.
\* U+FFFD encoded in three bytes is a rune of valid text.
RECURSIVE RuneCount(_)
RuneCount(b) ==
    IF b = <<>> THEN 0
    ELSE LET d == DecodeRune(b)
             rest == RuneCount(SubSeq(b, d.sz + 1, Len(b)))
         IN IF (d.r = 65533 /\ d.sz # 3) \/ rest = -1 THEN -1 ELSE 1 + rest

\* C28: the Hash codec returns, for a value of 8 bytes, 32 bytes: the value
\* followed by 24 zero bytes, whatever scratch slice it was passed.
C28_HashZeroExtends ==
    (/\ call.op = "Encode"
     /\ call.codec = "Hash"
     /\ call.value.k \in {"[8]byte", "[]byte"}
     /\ Len(call.value.b) = 8) =>
        /\ call.res.err = Nil
        /\ Len(call.res.out) = 32
        /\ SubSeq(call.res.out, 1, 8) = call.value.b
        /\ \A i \in 9 .. 32 : call.res.out[i] = 0

\* C29: the Int64 codec returns, for a value of type int64 and for one of
\* type int, no error and the 8 bytes that are the little-endian two's
\* complement of the number (so the same bytes for both types), and an error
\* for a value of any other type.
C29_Int64 ==
    (call.op = "Encode" /\ call.codec = "Int64") =>
        IF call.value.k \in {"int64", "int"}
        THEN /\ call.res.err = Nil
             /\ Len(call.res.out) = 8
             /\ TwosComplement(call.res.out) = call.value.n
             /\ (call.value.n >= 0 /\ call.value.n < 256) =>
                    call.res.out = <<call.value.n, 0, 0, 0, 0, 0, 0, 0>>
        ELSE call.res.err # Nil

\* The Int64 codec has encoded the native int -256 into a reused scratch
\* slice.
C29_Witness ==
    /\ call.op = "Encode"
    /\ call.codec = "Int64"
    /\ call.value.k = "int"
    /\ call.value.n = -256
    /\ call.writeTo # <<>>
    /\ call.res.err = Nil
    /\ call.res.out = <<0, 255, 255, 255, 255, 255, 255, 255>>

\* C30: for a String column of length L and a string of valid UTF-8 text:
\* with L > 0 and exactly L runes Encode returns no error and the bytes of
\* the text, with L > 0 and L + 1 runes it returns an error, and with L = 0
\* it returns no error and the bytes of the text whatever the rune count.
C30_StringLength ==
    (/\ call.op = "Encode"
     /\ call.codec = "String"
     /\ call.value.k = "string"
     /\ RuneCount(call.value.b) >= 0) =>
        LET n == RuneCount(call.value.b)
            L == call.col.Length
        IN /\ (L = 0 \/ n = L) => (call.res.err = Nil /\ call.res.out = call.value.b)
           /\ (L > 0 /\ n = L + 1) => call.res.err # Nil

\* The column called name of the table registered under tid.
ColumnOf(tid, name) ==
    LET cols == table[tid].Columns
    IN cols[CHOOSE i \in 1 .. Len(cols) : cols[i].Name = name]

\* What the codec of column col returns for value.
EncodeAs(col, value) ==
    IF col.Type = Int64 THEN coderInt64Encode(col, <<>>, value)
    ELSE IF col.Type = String THEN coderStringEncode(col, <<>>, 0, value)
    ELSE IF col.Type = Hash THEN coderHashEncode(col, <<>>, value)
    ELSE Encoded(<<>>, <<>>, ErrUnknownType)

\* The ref t selects columns of a registered table, one for each of values.
WellFormedInsert(t, values) ==
    /\ t.id \in DOMAIN table
    /\ t.invalid = <<>>
    /\ Len(values) = Len(t.col)
    /\ Len(values) > 0

\* One of values is a string of more runes than the non-zero length of its
\* String column.
TooLong(t, values) ==
    \E i \in 1 .. Len(values) :
        LET c == ColumnOf(t.id, t.col[i])
        IN /\ c.Type = String
           /\ c.Length > 0
           /\ values[i].k = "string"
           /\ RuneCount(values[i].b) > c.Length

\* C25: an Insert on a healthy Writer of a String value with more runes than
\* the non-zero length of its column latches an error, returns the sentinel
\* RowRef and buffers no row.
C25_CodecErrorLatched ==
    [][(/\ call'.op = "Insert"
        /\ err = Nil
        /\ WellFormedInsert(call'.t, call'.vals)
        /\ TooLong(call'.t, call'.vals)) =>
          /\ err' # Nil
          /\ call'.rref = errRow
          /\ rowBuffer' = rowBuffer]_vars

\* The row of values inserted through t: the marker RS 'R' and the encoded
\* values in the order of the selected columns.
RECURSIVE EncodedValues(_, _, _)
EncodedValues(t, values, i) ==
    IF i > Len(values) THEN <<>>
    ELSE EncodeAs(ColumnOf(t.id, t.col[i]), values[i]).out \o EncodedValues(t, values, i + 1)

\* C26: a row written to the sink is the marker RS 'R' followed by the
\* encoded values passed to Insert, in the order of the selected columns:
\* when an Insert of values that their codecs accept is followed by a Flush
\* that latches no error, the chunk of the table ends with that row.
C26_RowCarriesValues ==
    [][(/\ call.op = "Insert"
        /\ call.was = Nil
        /\ err = Nil
        /\ WellFormedInsert(call.t, call.vals)
        /\ \A i \in 1 .. Len(call.vals) :
               EncodeAs(ColumnOf(call.t.id, call.t.col[i]), call.vals[i]).err = Nil
        /\ call'.op = "Flush"
        /\ err' = Nil) =>
          LET row == markerRow \o EncodedValues(call.t, call.vals, 1)
          IN \E k \in 1 .. Len(call'.writes) :
                 LET e == call'.writes[k]
                     b == SubSeq(sink', e.off + 1, e.off + e.n)
                 IN /\ e.kind = "chunk"
                    /\ e.tid = call.t.id
                    /\ Len(b) >= Len(row)
                    /\ SubSeq(b, Len(b) - Len(row) + 1, Len(b)) = row]_vars

\* C31: for a byte slice of valid UTF-8 within the length of the String
\* column (the empty slice included) Encode returns no error and the bytes
\* of the slice.
C31_StringFromBytes ==
    (/\ call.op = "Encode"
     /\ call.codec = "String"
     /\ call.value.k = "[]byte"
     /\ RuneCount(call.value.b) >= 0
     /\ (call.col.Length = 0 \/ RuneCount(call.value.b) <= call.col.Length)) =>
        /\ call.res.err = Nil
        /\ call.res.out = call.value.b

\* C32: the Bytes codec returns no error and exactly the bytes of the input,
\* for a string and for a byte slice within the column's length, whatever
\* scratch slice it is passed: nil, or a slice of enough capacity and any
\* length.
C32_BytesVerbatim ==
    (/\ call.op = "Encode"
     /\ call.codec = "Bytes"
     /\ call.value.k \in {"string", "[]byte"}
     /\ (call.col.Length = 0 \/ Len(call.value.b) <= call.col.Length)) =>
        /\ call.res.err = Nil
        /\ call.res.out = call.value.b

\* C33: for a Bytes column of length L > 0, Encode returns an error for a
\* value of more than L bytes and no error for a value of at most L bytes.
C33_BytesLength ==
    (/\ call.op = "Encode"
     /\ call.codec = "Bytes"
     /\ call.value.k \in {"string", "[]byte"}
     /\ call.col.Length > 0) =>
        IF Len(call.value.b) > call.col.Length
        THEN call.res.err # Nil
        ELSE call.res.err = Nil

\* C34 as stated: if run returned a non-nil error before the stop-timeout
\* fired, Start returns that error; Start returns nil only when run returned
\* nil or had not returned when the stop-timeout fired.
C34_AsClaimed ==
    start.main = "done" =>
        /\ (start.returned = "err" /\ ~start.late) => start.ret = "err"
        /\ start.ret = "nil" =>
               \/ start.returned = "nil"
               \/ start.expired /\ (start.returned = "none" \/ start.late)

\* C34: when Start reads runErr, it returns what run returned if the
\* goroutine of run is past its Store by then, which it is whenever that
\* goroutine closed fin; Start returns an error only if run returned one;
\* and Start returns nil only when run returned nil, or the stop-timeout has
\* fired and run has not returned or its error is not stored yet.
C34_StoredErrorReturned ==
    [][(start.main = "load" /\ start'.main = "done") =>
          /\ start.run \in {"unlock", "done"} => start'.ret = start.returned
          /\ start'.ret = "err" => start.returned = "err"
          /\ start'.ret = "nil" =>
                 \/ start.returned = "nil"
                 \/ start.expired /\ start.run \in {"running", "store"}]_vars

\* After a signal, run returned an error before the stop-timeout fired and
\* Start returned it.
C34_Witness ==
    /\ start.main = "done"
    /\ start.woke = "notify"
    /\ start.returned = "err"
    /\ ~start.expired
    /\ start.ret = "err"

\* C35: Start calls cancel only after it received a signal or after run
\* completed and closed fin; once the stop-timeout has fired and its goroutine
\* has finished, fin is closed; and once a signal has arrived or run has
\* returned, Start calls cancel and returns, even if run never returns.
C35_CancelThenReturn ==
    LET AfterEvent ==
            start.cancel => \/ (start.woke = "notify" /\ start.sent > 0)
                            \/ (start.woke = "fin" /\ start.returned # "none")
        TimerAfterCancel == (start.timer # "none") => start.cancel
        TimerCloses == (start.timer = "done") => (start.expired /\ start.fin)
    IN /\ [](AfterEvent /\ TimerAfterCancel /\ TimerCloses)
       /\ (start.sent > 0 \/ start.returned # "none")
               ~> (start.cancel /\ start.main = "done")

\* Start has returned after a signal while run has not returned: the
\* stop-timeout fired and let it go.
C35_Witness ==
    /\ start.main = "done"
    /\ start.woke = "notify"
    /\ start.cancel
    /\ start.run = "running"
    /\ start.expired
    /\ start.ret = "nil"

\* C39: close(fin) is called at most once whatever the order of the steps of
\* the goroutine of run, the goroutine of the stop-timeout and the signal:
\* fin is closed exactly when it was called once, a Start that returned has
\* seen it closed, and once the goroutine of the stop-timeout exists fin is
\* closed in the end and the receive from fin in Start completes.
C39_ClosedOnce ==
    LET AtMostOnce == start.closes <= 1
        ClosedByOnce == (start.fin <=> (start.closes = 1)) /\ (start.fin <=> start.once)
        SeenClosed == (start.main \in {"load", "done"}) => (start.closes = 1)
    IN /\ [](AtMostOnce /\ ClosedByOnce /\ SeenClosed)
       /\ (start.timer # "none") ~> (start.fin /\ start.closes = 1)
       /\ (start.main = "wait") ~> (start.main = "done")

\* Both the goroutine of run and the goroutine of the stop-timeout have
\* called unlockOnce, and fin was closed once.
C39_Witness ==
    /\ start.run = "done"
    /\ start.timer = "done"
    /\ start.main = "done"
    /\ start.closes = 1

\* What initControl leaves to the caller is what NewWriter returns.
BootIsNewWriter ==
    call.op = "NewWriter" =>
        \E hdr \in Outcomes, failAt \in 0 .. controlColumnTagID, p \in 0 .. MaxPartial :
            /\ failAt = 0 => p = 0
            /\ [NewWriter(hdr, WriteOutcomes(failAt, p)) EXCEPT !.panic = FALSE] = Cur

\* C36: during the construction no row is inserted and no byte written
\* while fewer than seven control tables are registered; every insertControl
\* of the construction is for a table id larger than the one before, adds
\* one row to control/table and writes nothing; and when the Flush of the
\* construction starts, nothing has been written and the rows of all seven
\* tables and of their columns are buffered.
C36_TwoPhase ==
    [][/\ (call'.op \in BootOps /\ DOMAIN table' # 1 .. 7) =>
              (rowBuffer' = <<>> /\ sink' = <<>>)
       /\ (call'.op \in BootOps \ {"initControl", "csetup"}) =>
              (DOMAIN table = 1 .. 7 /\ DOMAIN control = 1 .. 7 /\ table' = table)
       /\ call'.op = "insertControl" =>
              /\ call.op = "insertControl" => call'.t.id > call.t.id
              /\ call.op = "csetup" => call'.t.id = 1
              /\ Buffered(rowBuffer', controlTableID)
                     = Buffered(rowBuffer, controlTableID) + 1
              /\ Buffered(rowBuffer', controlTableID) = call'.t.id
              /\ Buffered(rowBuffer', controlColumnID)
                     = Buffered(rowBuffer, controlColumnID) + Len(table[call'.t.id].Columns)
              /\ sink' = <<>>
              /\ chunksWritten' = 0
       /\ call'.op = "initControl.Flush" =>
              /\ sink = <<>>
              /\ wlog = <<>>
              /\ call.op = "addFieldType"
              /\ Buffered(rowBuffer, controlTableID) = 7
              /\ Buffered(rowBuffer, controlColumnID) = 29]_vars

\* insertControl of the last control table has run: seven rows are buffered
\* for control/table and nothing has been written.
C36_Witness ==
    /\ call.op = "insertControl"
    /\ call.t.id = controlColumnTagID
    /\ Buffered(rowBuffer, controlTableID) = 7
    /\ Buffered(rowBuffer, controlColumnID) = 29
    /\ sink = <<>>

\* C37: a Flush on a healthy Writer whose Writes all succeed writes, for
\* every table with buffered rows, one chunk that holds the rows buffered for
\* that table, as many and in the order they were inserted, each of them a
\* row inserted for the table registered under the chunk's table id; it
\* leaves the row buffer empty, so no later Flush writes any of them again.
C37_RowsWrittenOnce ==
    [][(/\ call'.op = "Flush"
        /\ err = Nil
        /\ err' = Nil
        /\ ~AnyFailed(call'.writes)) =>
          LET cs == ChunkWrites(call'.writes)
          IN /\ rowBuffer' = <<>>
             /\ rowTable' = <<>>
             /\ Len(cs) = Cardinality(DOMAIN rowBuffer)
             /\ \A tid \in DOMAIN rowBuffer :
                    \E i \in 1 .. Len(cs) :
                        /\ cs[i].tid = tid
                        /\ cs[i].rows = rowTable[tid]
                        /\ Len(cs[i].rows) = Len(rowBuffer[tid])
                        /\ cs[i].n = cs[i].len
                        /\ \A k \in 1 .. Len(cs[i].rows) : cs[i].rows[k] = TableName(Cur, tid)]_vars

\* C38: when the Write of the chunk of table k fails during a Flush, the
\* chunks of the buffered tables with smaller ids were written whole before
\* it and it is the last Write of the Flush, the rows of table k are gone
\* from the row buffer, the rows of the tables with larger ids are still in
\* it, and the error is latched; and no call on a Writer with a latched error
\* writes to the sink.
C38_FailedChunk ==
    [][/\ (call'.op = "Flush" /\ err = Nil /\ AnyFailed(ChunkWrites(call'.writes))) =>
              LET cs == ChunkWrites(call'.writes)
                  k == cs[Len(cs)].tid
                  smaller == {tid \in DOMAIN rowBuffer : tid < k}
                  larger == {tid \in DOMAIN rowBuffer : tid > k}
              IN /\ cs[Len(cs)].failed
                 /\ call'.writes[Len(call'.writes)] = cs[Len(cs)]
                 /\ k \in DOMAIN rowBuffer
                 /\ {cs[i].tid : i \in 1 .. Len(cs) - 1} = smaller
                 /\ Len(cs) - 1 = Cardinality(smaller)
                 /\ \A i \in 1 .. Len(cs) - 1 : ~cs[i].failed /\ cs[i].n = cs[i].len
                 /\ DOMAIN rowBuffer' = larger
                 /\ \A tid \in larger : rowBuffer'[tid] = rowBuffer[tid]
                 /\ err' = ErrSink
       /\ err # Nil => (sink' = sink /\ wlog' = wlog /\ err' = err)]_vars

\* The chunk of a table failed in a Flush that had written a chunk before it
\* and left rows of a later table buffered; a Close followed on the latched
\* Writer.
C38_Witness ==
    /\ call.op = "Close"
    /\ call.was = ErrSink
    /\ call.writes = <<>>
    /\ err = ErrSink
    /\ rowBuffer # <<>>
    /\ wlog[Len(wlog)].kind = "chunk"
    /\ wlog[Len(wlog)].failed
    /\ calls >= 2
    /\ Len(wlog) >= 2
    /\ wlog[Len(wlog) - 1].kind = "chunk"
    /\ \A tid \in DOMAIN rowBuffer : tid > wlog[Len(wlog)].tid

\* C40: every row in the row buffer is at least two bytes long and starts
\* with the row marker RS 'R', so its row type, its second byte, is 'R'; the
\* error of Flush about an invalid row length is never latched.
C40_RowsStartWithMarker ==
    /\ \A tid \in DOMAIN rowBuffer :
           \A ri \in 1 .. Len(rowBuffer[tid]) :
               LET r == rowBuffer[tid][ri]
               IN /\ Len(r) >= 2
                  /\ SubSeq(r, 1, 2) = <<30, 82>>
                  /\ r[2] = 82
    /\ err.kind # ErrRowLength(0, 0).kind

\* After a Flush that wrote chunks, rows of the caller and rows of the
\* catalog wait in the row buffer of the healthy Writer.
C40_Witness ==
    /\ call.op = "Insert"
    /\ call.was = Nil
    /\ err = Nil
    /\ chunksWritten > 0
    /\ Cardinality(DOMAIN rowBuffer) >= 2
    /\ \E tid \in DOMAIN rowBuffer : Len(rowBuffer[tid]) >= 2

====
